---- MODULE Spec2Model ----
(***************************************************************************)
(* Multi-source aggregation layer of the Academic MCP Server:              *)
(* the adapter registry, the per-provider search operations, the           *)
(* search_papers / search_papers_advanced dispatch and the merge/dedup     *)
(* helper merge_results_from_sources.                                      *)
(*                                                                         *)
(* Python values are modelled as follows.  A str that the code lower()s,   *)
(* strip()s, slices, searches or formats into another str is a sequence of *)
(* one-character strings (a fixed literal may stand as one element); a     *)
(* source name, which is only compared, is a TLA+ string; a dict is a      *)
(* function whose DOMAIN is its key set; an insertion-ordered dict that    *)
(* the code iterates is a sequence of [k, v] entries.                      *)
(***************************************************************************)
EXTENDS Integers, Sequences, FiniteSets, TLC

VARIABLES
    pc,            \* position of the request handler: "idle", "await", "done"
    req,           \* arguments of the request being served
    idx,           \* index in the registry of the adapter being awaited
    all_results,   \* the all_results dict of the "all" branch
    called,        \* adapter operations invoked so far by this request
    ret,           \* outcome of the last awaited adapter call
    result,        \* value returned by the handler
    m_in,          \* argument of a direct call of merge_results_from_sources
    m_out,         \* its outcome
    a_in,          \* a direct call of one adapter operation or of the lookup
                   \* tool: the arguments and what the upstream will answer
    a_out,         \* its outcome: the value returned and the requests issued
    tasks,         \* the handler coroutines of the event loop, one per
                   \* request in progress, each with its own locals
    registry,      \* the module globals adapters and AVAILABLE_SOURCES
    scan           \* one bioRxiv paging loop, iteration by iteration

vars == <<pc, req, idx, all_results, called, ret, result, m_in, m_out, a_in, a_out,
          tasks, registry, scan>>

----------------------------------------------------------------------------
(* Bounds of the model *)

\* most requests in progress at once
MaxTasks == 2
\* most items one upstream response holds
MaxItems == 2
\* most items one page of a bioRxiv listing holds
MaxPageItems == 1
\* most pages of a bioRxiv listing before it ends
MaxPages == 2
\* most records the adapters of one request return in total
MaxTotal == 3
\* largest num_results a request carries
MaxNum == 2
\* most records in the mapping of a direct merge call
MaxMergeTotal == 4
\* most sources in the mapping of a direct merge call
MaxMergeSources == 2

----------------------------------------------------------------------------
(* Python built-ins *)

\* the value None, distinct from every str over the model's characters
NoneVal == <<"None">>

\* str -> sequence of characters, for the literals the code uses
NoTitleAvailable ==
    <<"N","o"," ","t","i","t","l","e"," ","a","v","a","i","l","a","b","l","e">>

\* dict.get(key, default)
Get(d, k, default) == IF k \in DOMAIN d THEN d[k] ELSE default

\* truth value of a str-or-None used as a condition
Truthy(s) == s # NoneVal /\ s # <<>>

LowerChar(c) ==
    CASE c = "A" -> "a"
      [] c = "B" -> "b"
      [] c = "N" -> "n"
      [] OTHER -> c

\* str.lower()
Lower(s) == [i \in 1..Len(s) |-> LowerChar(s[i])]

IsSpace(c) == c = " "

RECURSIVE LStrip(_)
LStrip(s) == IF s # <<>> /\ IsSpace(Head(s)) THEN LStrip(Tail(s)) ELSE s

RECURSIVE RStrip(_)
RStrip(s) ==
    IF s # <<>> /\ IsSpace(s[Len(s)]) THEN RStrip(SubSeq(s, 1, Len(s) - 1)) ELSE s

\* str.strip()
Strip(s) == RStrip(LStrip(s))

\* `sub in s` for two strs
IsSubstr(sub, s) ==
    \E i \in 0..(Len(s) - Len(sub)) : SubSeq(s, i + 1, i + Len(sub)) = sub

\* list[:n] for n >= 0
Take(s, n) == SubSeq(s, 1, IF n < Len(s) THEN n ELSE Len(s))

\* min(a, b)
Min(a, b) == IF a < b THEN a ELSE b

\* ", ".join(names)
RECURSIVE JoinComma(_)
JoinComma(names) ==
    IF names = <<>> THEN <<>>
    ELSE IF Len(names) = 1 THEN Head(names)
    ELSE Head(names) \o <<",", " ">> \o JoinComma(Tail(names))

\* all sequences over S of length at most n
SeqUpTo(S, n) == UNION {[1..k -> S] : k \in 0..n}

\* sum of the lengths of the lists of an ordered dict
RECURSIVE TotalLen(_)
TotalLen(d) == IF d = <<>> THEN 0 ELSE Len(Head(d).v) + TotalLen(Tail(d))

\* the lists of an ordered dict, concatenated in insertion order
RECURSIVE Flatten(_)
Flatten(d) == IF d = <<>> THEN <<>> ELSE Head(d).v \o Flatten(Tail(d))

----------------------------------------------------------------------------
(* utils/helpers.py: merge_results_from_sources *)

\* NormTitle without the strip()
NormTitleNoStrip(t) == Lower(t)

\* title = result.get("title", "").lower().strip()
NormTitle(t) == Strip(Lower(t))

\* the three locals before the loop; kept is the list of the positions, in
\* iteration order, of the records appended to merged; raised is set when
\* the loop body throws
MergeStart ==
    [merged |-> <<>>, seen_ids |-> {}, seen_titles |-> {}, kept |-> <<>>,
     raised |-> FALSE]

\* MergeBody without the test on seen_ids
MergeBodyNoIdTest(st, rec, j) ==
    LET result_id == Get(rec, "id", <<>>)
        raw_title == Get(rec, "title", <<>>)
    IN  IF st.raised THEN st
        ELSE IF raw_title = NoneVal THEN [st EXCEPT !.raised = TRUE]
        ELSE LET title == NormTitle(raw_title) IN
             IF Truthy(title) /\ title \in st.seen_titles THEN st
             ELSE [merged |-> Append(st.merged, rec),
                   seen_ids |-> IF Truthy(result_id)
                                THEN st.seen_ids \cup {result_id}
                                ELSE st.seen_ids,
                   seen_titles |-> IF Truthy(title)
                                   THEN st.seen_titles \cup {title}
                                   ELSE st.seen_titles,
                   kept |-> Append(st.kept, j),
                   raised |-> FALSE]

\* MergeBody skipping every record whose id is empty
MergeBodyDropsEmptyId(st, rec, j) ==
    LET result_id == Get(rec, "id", <<>>)
        raw_title == Get(rec, "title", <<>>)
    IN  IF st.raised THEN st
        ELSE IF raw_title = NoneVal THEN [st EXCEPT !.raised = TRUE]
        ELSE LET title == NormTitle(raw_title) IN
             IF ~Truthy(result_id) \/ result_id \in st.seen_ids THEN st
             ELSE IF Truthy(title) /\ title \in st.seen_titles THEN st
             ELSE [merged |-> Append(st.merged, rec),
                   seen_ids |-> st.seen_ids \cup {result_id},
                   seen_titles |-> IF Truthy(title)
                                   THEN st.seen_titles \cup {title}
                                   ELSE st.seen_titles,
                   kept |-> Append(st.kept, j),
                   raised |-> FALSE]

\* MergeBody registering the id of a record skipped for its title
MergeBodyRegistersSkipped(st, rec, j) ==
    LET result_id == Get(rec, "id", <<>>)
        raw_title == Get(rec, "title", <<>>)
    IN  IF st.raised THEN st
        ELSE IF raw_title = NoneVal THEN [st EXCEPT !.raised = TRUE]
        ELSE LET title == NormTitle(raw_title) IN
             IF Truthy(result_id) /\ result_id \in st.seen_ids THEN st
             ELSE IF Truthy(title) /\ title \in st.seen_titles
             THEN [st EXCEPT !.seen_ids = IF Truthy(result_id)
                                          THEN st.seen_ids \cup {result_id}
                                          ELSE st.seen_ids]
             ELSE [merged |-> Append(st.merged, rec),
                   seen_ids |-> IF Truthy(result_id)
                                THEN st.seen_ids \cup {result_id}
                                ELSE st.seen_ids,
                   seen_titles |-> IF Truthy(title)
                                   THEN st.seen_titles \cup {title}
                                   ELSE st.seen_titles,
                   kept |-> Append(st.kept, j),
                   raised |-> FALSE]

\* MergeBody never registering a title
MergeBodyForgetsTitle(st, rec, j) ==
    LET result_id == Get(rec, "id", <<>>)
        raw_title == Get(rec, "title", <<>>)
    IN  IF st.raised THEN st
        ELSE IF raw_title = NoneVal THEN [st EXCEPT !.raised = TRUE]
        ELSE LET title == NormTitle(raw_title) IN
             IF Truthy(result_id) /\ result_id \in st.seen_ids THEN st
             ELSE IF Truthy(title) /\ title \in st.seen_titles THEN st
             ELSE [merged |-> Append(st.merged, rec),
                   seen_ids |-> IF Truthy(result_id)
                                THEN st.seen_ids \cup {result_id}
                                ELSE st.seen_ids,
                   seen_titles |-> st.seen_titles,
                   kept |-> Append(st.kept, j),
                   raised |-> FALSE]

\* MergeBody appending the record with its title normalized
MergeBodyStoresNormTitle(st, rec, j) ==
    LET result_id == Get(rec, "id", <<>>)
        raw_title == Get(rec, "title", <<>>)
    IN  IF st.raised THEN st
        ELSE IF raw_title = NoneVal THEN [st EXCEPT !.raised = TRUE]
        ELSE LET title == NormTitle(raw_title) IN
             IF Truthy(result_id) /\ result_id \in st.seen_ids THEN st
             ELSE IF Truthy(title) /\ title \in st.seen_titles THEN st
             ELSE [merged |-> Append(st.merged,
                                     IF "title" \in DOMAIN rec
                                     THEN [rec EXCEPT !.title = title] ELSE rec),
                   seen_ids |-> IF Truthy(result_id)
                                THEN st.seen_ids \cup {result_id}
                                ELSE st.seen_ids,
                   seen_titles |-> IF Truthy(title)
                                   THEN st.seen_titles \cup {title}
                                   ELSE st.seen_titles,
                   kept |-> Append(st.kept, j),
                   raised |-> FALSE]

\* one pass through the body of the inner loop, for the record at position j
MergeBody(st, rec, j) ==
    LET result_id == Get(rec, "id", <<>>)
        raw_title == Get(rec, "title", <<>>)
    IN  IF st.raised THEN st
        ELSE IF raw_title = NoneVal THEN [st EXCEPT !.raised = TRUE]
        ELSE LET title == NormTitle(raw_title) IN
             IF Truthy(result_id) /\ result_id \in st.seen_ids THEN st
             ELSE IF Truthy(title) /\ title \in st.seen_titles THEN st
             ELSE [merged |-> Append(st.merged, rec),
                   seen_ids |-> IF Truthy(result_id)
                                THEN st.seen_ids \cup {result_id}
                                ELSE st.seen_ids,
                   seen_titles |-> IF Truthy(title)
                                   THEN st.seen_titles \cup {title}
                                   ELSE st.seen_titles,
                   kept |-> Append(st.kept, j),
                   raised |-> FALSE]

RECURSIVE MergeLoop(_, _, _)
MergeLoop(st, flat, j) ==
    IF j > Len(flat) THEN st
    ELSE MergeLoop(MergeBody(st, flat[j], j), flat, j + 1)

\* the whole function; results_dict is an ordered dict source -> list
merge_results_from_sources(results_dict) ==
    MergeLoop(MergeStart, Flatten(results_dict), 1)

----------------------------------------------------------------------------
(* An upstream reply: exc is set when the call itself throws (timeout,     *)
(* connection error, undecodable body); otherwise status and the items of  *)
(* the body.                                                               *)

Reply(exc, status, items) == [exc |-> exc, status |-> status, items |-> items]

----------------------------------------------------------------------------
(* adapters/pubmed_adapter.py *)

PubMedFormatResult(pubmed_result) ==
    IF "error" \in DOMAIN pubmed_result THEN pubmed_result
    ELSE LET pmid == Get(pubmed_result, "PMID", <<>>) IN
         [id |-> pmid,
          title |-> Get(pubmed_result, "Title", NoTitleAvailable),
          authors |-> Get(pubmed_result, "Authors", <<"No authors available">>),
          abstract |-> Get(pubmed_result, "Abstract", <<"No abstract available">>),
          publication_date |-> Get(pubmed_result, "Publication Date", <<>>),
          journal |-> Get(pubmed_result, "Journal", <<>>),
          url |-> <<"https://pubmed.ncbi.nlm.nih.gov/">> \o pmid \o <<"/">>,
          pdf_url |-> NoneVal,
          source |-> "pubmed"]

\* search_by_keywords and search_advanced: both hand the arguments to the
\* collaborator and format what it returns; up is the collaborator's reply
PubMedSearch(up) ==
    IF up.exc THEN <<>>
    ELSE [i \in 1..Len(up.items) |-> PubMedFormatResult(up.items[i])]

----------------------------------------------------------------------------
(* adapters/arxiv_adapter.py *)

\* text.split('/abs/')[-1]
RECURSIVE SplitAbsLast(_)
SplitAbsLast(s) ==
    IF \E i \in 1..Len(s) : s[i] = "/abs/"
    THEN SplitAbsLast(Tail(s))
    ELSE s

\* the dict built for one atom:entry; an absent key is an absent element
ArXivEntry(entry) ==
    LET arxiv_id == IF "id" \in DOMAIN entry THEN SplitAbsLast(entry.id) ELSE <<>>
        title == IF "title" \in DOMAIN entry THEN Strip(entry.title) ELSE <<>>
        abstract == IF "summary" \in DOMAIN entry THEN Strip(entry.summary) ELSE <<>>
        pub_date == IF "published" \in DOMAIN entry THEN Take(entry.published, 10) ELSE <<>>
        category == IF "category" \in DOMAIN entry THEN entry.category ELSE <<>>
    IN  [id |-> arxiv_id,
         title |-> title,
         authors |-> JoinComma(Get(entry, "authors", <<>>)),
         abstract |-> abstract,
         publication_date |-> pub_date,
         journal |-> <<"arXiv preprint (">> \o category \o <<")">>,
         url |-> <<"https://arxiv.org/abs/">> \o arxiv_id,
         pdf_url |-> <<"https://arxiv.org/pdf/">> \o arxiv_id \o <<".pdf">>,
         source |-> "arxiv"]

\* an element whose text is None makes .split / .strip / [:10] throw, and the
\* handler of _parse_arxiv_response then returns []
ArXivEntryThrows(entry) ==
    \E k \in {"id", "title", "summary", "published"} :
        k \in DOMAIN entry /\ entry[k] = NoneVal

ArXivParseResponse(entries) ==
    IF \E i \in 1..Len(entries) : ArXivEntryThrows(entries[i]) THEN <<>>
    ELSE [i \in 1..Len(entries) |-> ArXivEntry(entries[i])]

ArXivSearchByKeywords(up) ==
    IF up.exc THEN <<>>
    ELSE IF up.status # 200 THEN <<>>
    ELSE ArXivParseResponse(up.items)

\* code point order of the characters that occur in dates
Ord(c) ==
    CASE c = "-" -> 45 [] c = "0" -> 48 [] c = "1" -> 49 [] c = "2" -> 50
      [] c = "3" -> 51 [] c = "4" -> 52 [] c = "5" -> 53 [] c = "6" -> 54
      [] c = "7" -> 55 [] c = "8" -> 56 [] c = "9" -> 57 [] c = "T" -> 84
      [] OTHER -> 97

\* s < t for two strs
RECURSIVE StrLess(_, _)
StrLess(s, t) ==
    IF t = <<>> THEN FALSE
    ELSE IF s = <<>> THEN TRUE
    ELSE IF Ord(Head(s)) # Ord(Head(t)) THEN Ord(Head(s)) < Ord(Head(t))
    ELSE StrLess(Tail(s), Tail(t))

\* ArXivSkips also skipping the records dated at the two ends of the range
ArXivSkipsEnds(pub_date, start_date, end_date) ==
    \/ Truthy(start_date) /\ ~StrLess(start_date, pub_date)
    \/ Truthy(end_date) /\ ~StrLess(pub_date, end_date)

\* the two tests of _filter_by_date that skip a record
ArXivSkips(pub_date, start_date, end_date) ==
    \/ Truthy(start_date) /\ StrLess(pub_date, start_date)
    \/ Truthy(end_date) /\ StrLess(end_date, pub_date)

RECURSIVE ArXivFilterByDate(_, _, _)
ArXivFilterByDate(results, start_date, end_date) ==
    IF results = <<>> THEN <<>>
    ELSE LET r == Head(results)
             pub_date == Get(r, "publication_date", <<>>)
             rest == ArXivFilterByDate(Tail(results), start_date, end_date)
         IN  IF ArXivSkips(pub_date, start_date, end_date) THEN rest
             ELSE <<r>> \o rest

\* kwargs.get(k): None when the key is absent
KwGet(kwargs, k) == Get(kwargs, k, NoneVal)

\* TRUE when search_advanced builds a query, FALSE when it returns [] at once
ArXivHasQuery(kwargs) ==
    \/ \E k \in {"title", "author", "abstract", "category"} : Truthy(KwGet(kwargs, k))
    \/ Truthy(KwGet(kwargs, "term"))

ArXivSearchAdvanced(kwargs, up) ==
    IF ~ArXivHasQuery(kwargs) THEN <<>>
    ELSE IF up.exc THEN <<>>
    ELSE IF up.status # 200 THEN <<>>
    ELSE LET results == ArXivParseResponse(up.items) IN
         IF Truthy(KwGet(kwargs, "start_date")) \/ Truthy(KwGet(kwargs, "end_date"))
         THEN ArXivFilterByDate(results, KwGet(kwargs, "start_date"),
                                KwGet(kwargs, "end_date"))
         ELSE results

----------------------------------------------------------------------------
(* adapters/biorxiv_adapter.py *)

\* the safety ceiling of the paging loops
ScanCeiling == 10000

BioRxivFormatResult(server, item) ==
    LET doi == Get(item, "doi", <<>>) IN
    [id |-> doi,
     title |-> Get(item, "title", <<>>),
     authors |-> Get(item, "authors", <<>>),
     abstract |-> Get(item, "abstract", <<>>),
     publication_date |-> Get(item, "date", <<>>),
     journal |-> <<server, " (preprint)">>,
     url |-> <<"https://www.", server, ".org/content/">> \o doi,
     pdf_url |-> <<"https://www.", server, ".org/content/">> \o doi \o <<"v1.full.pdf">>,
     source |-> server]

\* .lower() of a field that is None throws
BioRxivKwThrows(item) ==
    Get(item, "title", <<>>) = NoneVal \/ Get(item, "abstract", <<>>) = NoneVal

\* BioRxivKwMatch looking at the title alone
BioRxivKwMatchTitleOnly(item, keywords_lower) ==
    IsSubstr(keywords_lower, Lower(Get(item, "title", <<>>)))

\* the test of search_by_keywords
BioRxivKwMatch(item, keywords_lower) ==
    \/ IsSubstr(keywords_lower, Lower(Get(item, "title", <<>>)))
    \/ IsSubstr(keywords_lower, Lower(Get(item, "abstract", <<>>)))

\* the test of search_advanced; a field that is None throws only when the
\* query on it is non-empty, since `not q or q in f.lower()` short-circuits
BioRxivAdvThrows(item, title_query, author_query) ==
    \/ title_query # <<>> /\ Get(item, "title", <<>>) = NoneVal
    \/ author_query # <<>> /\ Get(item, "authors", <<>>) = NoneVal

BioRxivAdvMatch(item, title_query, author_query) ==
    /\ title_query = <<>> \/ IsSubstr(title_query, Lower(Get(item, "title", <<>>)))
    /\ author_query = <<>> \/ IsSubstr(author_query, Lower(Get(item, "authors", <<>>)))

\* q is [adv |-> FALSE, kw |-> keywords_lower] or
\* [adv |-> TRUE, title |-> title_query, author |-> author_query]
BioRxivThrows(item, q) ==
    IF q.adv THEN BioRxivAdvThrows(item, q.title, q.author) ELSE BioRxivKwThrows(item)

BioRxivMatch(item, q) ==
    IF q.adv THEN BioRxivAdvMatch(item, q.title, q.author)
    ELSE BioRxivKwMatch(item, q.kw)

\* the for loop over one page: appends the matches and breaks once
\* num_results are held; seen counts the records the loop has looked at
RECURSIVE BioRxivScan(_, _, _, _, _)
BioRxivScan(server, acc, collection, num_results, q) ==
    IF collection = <<>> THEN [all |-> acc, exc |-> FALSE, seen |-> 0]
    ELSE LET item == Head(collection) IN
         IF BioRxivThrows(item, q) THEN [all |-> acc, exc |-> TRUE, seen |-> 1]
         ELSE LET acc2 == IF BioRxivMatch(item, q)
                          THEN Append(acc, BioRxivFormatResult(server, item))
                          ELSE acc
              IN  IF BioRxivMatch(item, q) /\ Len(acc2) >= num_results
                  THEN [all |-> acc2, exc |-> FALSE, seen |-> 1]
                  ELSE LET go == BioRxivScan(server, acc2, Tail(collection),
                                             num_results, q)
                       IN  [go EXCEPT !.seen = go.seen + 1]

\* a long collection is given by its first records, items, and the number
\* pad of records after them, each a copy of BioRxivPadItem
BioRxivPadItem ==
    [doi |-> <<"9">>, title |-> <<"b">>,
     date |-> <<"2", "0", "2", "4", "-", "0", "3", "-", "0", "5">>]

PadOf(response) == Get(response, "pad", 0)

\* len(collection)
CollectionLen(response) == Len(response.items) + PadOf(response)

\* the for loop over the pad records that follow the items, entered with sc
\* the outcome of the loop over the items
BioRxivScanPad(server, sc, pad, num_results, q) ==
    IF sc.exc \/ pad = 0 \/ Len(sc.all) >= num_results THEN sc
    ELSE IF BioRxivThrows(BioRxivPadItem, q)
    THEN [all |-> sc.all, exc |-> TRUE, seen |-> sc.seen + 1]
    ELSE IF BioRxivMatch(BioRxivPadItem, q)
    THEN LET taken == Min(pad, num_results - Len(sc.all)) IN
         [all |-> sc.all \o [i \in 1..taken |->
                                BioRxivFormatResult(server, BioRxivPadItem)],
          exc |-> FALSE,
          seen |-> sc.seen + taken]
    ELSE [sc EXCEPT !.seen = sc.seen + pad]

\* the listing past its last page: status 200, empty collection
EndOfListing == Reply(FALSE, 200, <<>>)

\* BioRxivContinues letting a request go out at the ceiling itself
BioRxivContinuesAtCeiling(held, cursor, num_results) ==
    held < num_results /\ cursor <= ScanCeiling

\* the condition of the while loop
BioRxivContinues(held, cursor, num_results) ==
    held < num_results /\ cursor < ScanCeiling

\* BioRxivAdvance leaving the cursor where it is
BioRxivAdvanceStuck(cursor, size) == cursor

\* cursor += len(collection)
BioRxivAdvance(cursor, size) == cursor + size

\* the while loop; pages are the replies still to come, one per request;
\* log holds, per request issued, the matches held and the cursor sent;
\* seen counts the records the for loops have looked at
RECURSIVE BioRxivLoop(_, _, _, _, _, _)
BioRxivLoop(server, acc, cursor, pages, num_results, q) ==
    IF ~BioRxivContinues(Len(acc), cursor, num_results)
    THEN [all |-> acc, exc |-> FALSE, cursor |-> cursor, left |-> pages,
          log |-> <<>>, seen |-> 0]
    ELSE LET response == IF pages = <<>> THEN EndOfListing ELSE Head(pages)
             rest == IF pages = <<>> THEN <<>> ELSE Tail(pages)
             sent == <<[held |-> Len(acc), cursor |-> cursor]>>
         IN  IF response.exc
             THEN [all |-> acc, exc |-> TRUE, cursor |-> cursor, left |-> rest,
                   log |-> sent, seen |-> 0]
             ELSE IF response.status # 200 \/ CollectionLen(response) = 0
             THEN [all |-> acc, exc |-> FALSE, cursor |-> cursor, left |-> rest,
                   log |-> sent, seen |-> 0]
             ELSE LET sc == BioRxivScanPad(server,
                                BioRxivScan(server, acc, response.items, num_results, q),
                                PadOf(response), num_results, q)
                  IN
                  IF sc.exc
                  THEN [all |-> sc.all, exc |-> TRUE, cursor |-> cursor, left |-> rest,
                        log |-> sent, seen |-> sc.seen]
                  ELSE LET go == BioRxivLoop(server, sc.all,
                                             BioRxivAdvance(cursor, CollectionLen(response)),
                                             rest, num_results, q)
                       IN  [go EXCEPT !.log = sent \o go.log,
                                      !.seen = sc.seen + go.seen]

BioRxivFinish(loop, num_results) ==
    IF loop.exc THEN <<>> ELSE Take(loop.all, num_results)

BioRxivSearchByKeywords(server, keywords, num_results, pages) ==
    BioRxivFinish(BioRxivLoop(server, <<>>, 0, pages, num_results,
                              [adv |-> FALSE, kw |-> Lower(keywords)]),
                  num_results)

\* int(s) for a str of digits
RECURSIVE ToNat(_)
ToNat(s) == IF s = <<>> THEN 0 ELSE 10 * ToNat(SubSeq(s, 1, Len(s) - 1)) + (Ord(s[Len(s)]) - 48)

IsDigits(s) == s # <<>> /\ \A i \in 1..Len(s) : Ord(s[i]) \in 48..57

DaysInMonth(y, m) ==
    IF m = 2 THEN (IF (y % 4 = 0 /\ y % 100 # 0) \/ y % 400 = 0 THEN 29 ELSE 28)
    ELSE IF m \in {4, 6, 9, 11} THEN 30 ELSE 31

\* TRUE when datetime.strptime(s, '%Y-%m-%d') returns, FALSE when it throws
StrptimeOk(s) ==
    \E i, j \in 1..Len(s) :
        /\ i < j /\ s[i] = "-" /\ s[j] = "-"
        /\ LET y == SubSeq(s, 1, i - 1)
               m == SubSeq(s, i + 1, j - 1)
               d == SubSeq(s, j + 1, Len(s))
           IN  /\ IsDigits(y) /\ Len(y) = 4 /\ ToNat(y) >= 1
               /\ IsDigits(m) /\ Len(m) <= 2 /\ ToNat(m) \in 1..12
               /\ IsDigits(d) /\ Len(d) <= 2
               /\ ToNat(d) \in 1..DaysInMonth(ToNat(y), ToNat(m))

\* the default start date is computed from a given end date with strptime
BioRxivDatesThrow(kwargs) ==
    /\ Truthy(KwGet(kwargs, "end_date"))
    /\ ~Truthy(KwGet(kwargs, "start_date"))
    /\ ~StrptimeOk(KwGet(kwargs, "end_date"))

BioRxivSearchAdvanced(server, kwargs, pages) ==
    LET title_query == Lower(Get(kwargs, "title", <<>>))
        author_query == Lower(Get(kwargs, "author", <<>>))
        num_results == Get(kwargs, "num_results", 10)
    IN  IF BioRxivDatesThrow(kwargs) THEN <<>> ELSE
        BioRxivFinish(BioRxivLoop(server, <<>>, 0, pages, num_results,
                                  [adv |-> TRUE, title |-> title_query,
                                   author |-> author_query]),
                      num_results)

----------------------------------------------------------------------------
(* adapters/semantic_scholar_adapter.py *)

\* the largest limit the API accepts
SemanticMaxLimit == 100

\* str(year): the digits of an int, the text None for a null year
StrOfYear(y) == IF y = NoneVal THEN <<"N", "o", "n", "e">> ELSE y

\* [author.get("name", "") for author in authors_list]
AuthorNames(authors_list) ==
    [i \in 1..Len(authors_list) |-> Get(authors_list[i], "name", <<>>)]

\* a null author name makes ", ".join throw
SemanticFormatThrows(paper) ==
    \E i \in 1..Len(Get(paper, "authors", <<>>)) :
        Get(paper.authors[i], "name", <<>>) = NoneVal

\* a paper whose authors or openAccessPdf is null is modelled with the key
\* absent: both read as a false value through paper.get
SemanticFormatResult(paper) ==
    LET authors_list == Get(paper, "authors", <<>>)
        authors_str == IF authors_list # <<>>
                       THEN JoinComma(AuthorNames(authors_list))
                       ELSE <<"No authors available">>
        pdf_url == IF "openAccessPdf" \in DOMAIN paper
                   THEN Get(paper.openAccessPdf, "url", NoneVal)
                   ELSE NoneVal
        paper_id == Get(paper, "paperId", <<>>)
    IN  [id |-> paper_id,
         title |-> Get(paper, "title", NoTitleAvailable),
         authors |-> authors_str,
         abstract |-> Get(paper, "abstract", <<"No abstract available">>),
         publication_date |-> StrOfYear(Get(paper, "year", <<>>)),
         journal |-> Get(paper, "venue", <<>>),
         url |-> Get(paper, "url", <<"https://www.semanticscholar.org/paper/">> \o paper_id),
         pdf_url |-> pdf_url,
         source |-> "semantic_scholar",
         citation_count |-> Get(paper, "citationCount", NoneVal),
         reference_count |-> Get(paper, "referenceCount", NoneVal),
         fields_of_study |-> Get(paper, "fieldsOfStudy", NoneVal)]

\* the limit parameter of the keyword request
SemanticKwLimit(num_results) == Min(num_results, SemanticMaxLimit)

\* SemanticAdvLimit without the cap
SemanticAdvLimitUncapped(num_results) == num_results * 2

\* the limit parameter of the advanced request
SemanticAdvLimit(num_results) == Min(num_results * 2, SemanticMaxLimit)

SemanticSearchByKeywords(up) ==
    IF up.exc THEN <<>>
    ELSE IF up.status # 200 THEN <<>>
    ELSE IF \E i \in 1..Len(up.items) : SemanticFormatThrows(up.items[i]) THEN <<>>
    ELSE [i \in 1..Len(up.items) |-> SemanticFormatResult(up.items[i])]

SemanticHasQuery(kwargs) ==
    \E k \in {"term", "title", "author"} : Truthy(KwGet(kwargs, k))

\* [r for r in results if author_query in r.get('authors', '').lower()]
RECURSIVE SemanticAuthorFilter(_, _)
SemanticAuthorFilter(results, author_query) ==
    IF results = <<>> THEN <<>>
    ELSE LET rest == SemanticAuthorFilter(Tail(results), author_query) IN
         IF IsSubstr(author_query, Lower(Get(Head(results), "authors", <<>>)))
         THEN <<Head(results)>> \o rest
         ELSE rest

SemanticSearchAdvanced(kwargs, up) ==
    IF ~SemanticHasQuery(kwargs) THEN <<>>
    ELSE IF up.exc THEN <<>>
    ELSE IF up.status # 200 THEN <<>>
    ELSE IF \E i \in 1..Len(up.items) : SemanticFormatThrows(up.items[i]) THEN <<>>
    ELSE LET num_results == Get(kwargs, "num_results", 10)
             results == [i \in 1..Len(up.items) |-> SemanticFormatResult(up.items[i])]
             filtered == IF Truthy(KwGet(kwargs, "author"))
                         THEN SemanticAuthorFilter(results, Lower(kwargs.author))
                         ELSE results
         IN  Take(filtered, num_results)

----------------------------------------------------------------------------
(* adapters/scihub_adapter.py *)

DigitChar(d) ==
    CASE d = 0 -> "0" [] d = 1 -> "1" [] d = 2 -> "2" [] d = 3 -> "3"
      [] d = 4 -> "4" [] d = 5 -> "5" [] d = 6 -> "6" [] d = 7 -> "7"
      [] d = 8 -> "8" [] d = 9 -> "9"

\* str(n) for n >= 0
RECURSIVE IntStr(_)
IntStr(n) == IF n < 10 THEN <<DigitChar(n)>> ELSE IntStr(n \div 10) \o <<DigitChar(n % 10)>>

\* f"{n:02d}" for n >= 0
Pad2(n) == IF n < 10 THEN <<"0">> \o IntStr(n) ELSE IntStr(n)

\* an element of date-parts: an int, or a JSON null
IntPart(n) == [int |-> n]
NullPart == [null |-> TRUE]
IsNullPart(part) == "null" \in DOMAIN part

\* the date-parts of a date dict; date_parts stands for the key 'date-parts'
DateParts(date_dict) == Get(date_dict, "date_parts", <<<<>>>>)

\* _format_date throws when month or day is not an int: the format
\* specification 02d rejects None
SciHubFormatDateThrows(date_dict) ==
    LET date_parts == DateParts(date_dict) IN
    /\ date_parts # <<>> /\ date_parts[1] # <<>>
    /\ \E i \in 2..Min(3, Len(date_parts[1])) : IsNullPart(date_parts[1][i])

\* _format_date; a dict without keys is a false value
SciHubFormatDate(date_dict) ==
    IF DOMAIN date_dict = {} THEN <<"N/A">>
    ELSE LET date_parts == DateParts(date_dict) IN
         IF date_parts # <<>> /\ date_parts[1] # <<>>
         THEN LET parts == date_parts[1]
                  year == IF IsNullPart(parts[1]) THEN <<"N", "o", "n", "e">>
                          ELSE IntStr(parts[1].int)
                  month == IF Len(parts) >= 2 THEN parts[2].int ELSE 1
                  day == IF Len(parts) >= 3 THEN parts[3].int ELSE 1
              IN  year \o <<"-">> \o Pad2(month) \o <<"-">> \o Pad2(day)
         ELSE <<"N/A">>

\* the names _format_authors collects from the authors it looks at
RECURSIVE SciHubAuthorNames(_)
SciHubAuthorNames(authors) ==
    IF authors = <<>> THEN <<>>
    ELSE LET given == Get(Head(authors), "given", <<>>)
             family == Get(Head(authors), "family", <<>>)
             rest == SciHubAuthorNames(Tail(authors))
         IN  IF given # <<>> \/ family # <<>>
             THEN <<Strip(given \o <<" ">> \o family)>> \o rest
             ELSE rest

SciHubFormatAuthors(authors) ==
    IF authors = <<>> THEN <<"N/A">>
    ELSE LET joined == JoinComma(SciHubAuthorNames(Take(authors, 5)))
             names == IF Len(authors) > 5 THEN joined \o <<" et al.">> ELSE joined
         IN  IF names # <<>> THEN names ELSE <<"N/A">>

\* item.get(key, [''])[0] if item.get(key) else fallback, for a list of strs
FirstOr(item, key, fallback) ==
    IF Get(item, key, <<>>) # <<>> THEN item[key][1] ELSE fallback

\* the dict appended for one CrossRef item that Sci-Hub delivers
SciHubPaper(item, paper_info) ==
    [id |-> item.DOI,
     title |-> FirstOr(item, "title", <<>>),
     authors |-> SciHubFormatAuthors(Get(item, "author", <<>>)),
     abstract |-> Get(item, "abstract", <<"N/A">>),
     publication_date |-> SciHubFormatDate(Get(item, "created", <<>>)),
     journal |-> FirstOr(item, "container_title", <<"N/A">>),
     url |-> <<"https://doi.org/">> \o item.DOI,
     pdf_url |-> Get(paper_info, "url", <<>>),
     source |-> "scihub"]

\* what _fetch_from_scihub returns for a DOI that Sci-Hub delivers
SciHubInfo(doi) == [url |-> <<"https://sci-hub/">> \o doi]

\* SciHubResolves taking every DOI for resolved
SciHubResolvesAlways(doi, fetched) == TRUE

\* if paper_info: fetched is the set of DOIs Sci-Hub delivers, for any other
\* DOI _fetch_from_scihub has caught the exception and returned None
SciHubResolves(doi, fetched) == doi \in fetched

\* the for loop of search_by_keywords over the CrossRef items; fetches is
\* the sequence of DOIs _fetch_from_scihub has been called with; an
\* exception leaves the loop with the papers appended so far
RECURSIVE SciHubLoop(_, _, _, _)
SciHubLoop(papers, fetches, items, fetched) ==
    IF items = <<>> THEN [papers |-> papers, fetches |-> fetches, exc |-> FALSE]
    ELSE LET item == Head(items)
             doi == Get(item, "DOI", NoneVal)
         IN  IF ~Truthy(doi) THEN SciHubLoop(papers, fetches, Tail(items), fetched)
             ELSE IF ~SciHubResolves(doi, fetched)
             THEN SciHubLoop(papers, Append(fetches, doi), Tail(items), fetched)
             ELSE IF SciHubFormatDateThrows(Get(item, "created", <<>>))
             THEN [papers |-> papers, fetches |-> Append(fetches, doi), exc |-> TRUE]
             ELSE SciHubLoop(Append(papers, SciHubPaper(item, SciHubInfo(doi))),
                             Append(fetches, doi), Tail(items), fetched)

SciHubNotAvailable == <<[error |-> <<"Sci-Hub library not available">>]>>

\* search_by_keywords: v is the list returned, net the number of requests
\* issued (one to CrossRef and one per call of _fetch_from_scihub), log the
\* DOIs _fetch_from_scihub has been called with
SciHubSearchByKeywords(available, num_results, up) ==
    IF ~available THEN [v |-> SciHubNotAvailable, net |-> 0, log |-> <<>>]
    ELSE IF up.exc THEN [v |-> <<>>, net |-> 1, log |-> <<>>]
    ELSE IF up.status # 200 THEN [v |-> <<>>, net |-> 1, log |-> <<>>]
    ELSE LET loop == SciHubLoop(<<>>, <<>>, Take(up.items, num_results), up.fetched)
         IN  [v |-> loop.papers, net |-> 1 + Len(loop.fetches), log |-> loop.fetches]

\* the query search_advanced builds; the parts are joined with a blank
SciHubQuery(kwargs) ==
    LET part(k, prefix) == IF Truthy(KwGet(kwargs, k)) THEN <<prefix \o kwargs[k]>> ELSE <<>>
        query_parts == part("title", <<"title:">>) \o part("author", <<"author:">>)
                       \o part("journal", <<"container-title:">>) \o part("term", <<>>)
    IN  IF query_parts # <<>> THEN query_parts ELSE <<<<"research">>>>

\* search_advanced: the keyword search on the query built
SciHubSearchAdvanced(available, kwargs, up) ==
    IF ~available THEN [v |-> SciHubNotAvailable, net |-> 0, log |-> <<>>]
    ELSE LET r == SciHubSearchByKeywords(available, Get(kwargs, "num_results", 10), up)
         IN  [v |-> r.v, net |-> r.net, log |-> r.log, query |-> SciHubQuery(kwargs)]

----------------------------------------------------------------------------
(* get_metadata of the registered adapters; up is the reply to the one     *)
(* request, its items the collection, the feed entries, or the one JSON    *)
(* object of the body                                                      *)

ErrorValue(msg) == [error |-> msg]

\* the collaborator throws, returns nothing, or returns the article
PubMedGetMetadata(identifier, up) ==
    IF up.exc THEN ErrorValue(<<"Error fetching metadata: ", "Exception">>)
    ELSE IF up.items = <<>>
    THEN ErrorValue(<<"No metadata found for PMID: ">> \o identifier)
    ELSE PubMedFormatResult(up.items[1])

BioRxivGetMetadata(server, identifier, up) ==
    IF up.exc THEN ErrorValue(<<"Error fetching metadata: ", "Exception">>)
    ELSE IF up.status # 200
    THEN ErrorValue(<<"Could not retrieve metadata for DOI: ">> \o identifier)
    ELSE IF up.items # <<>> THEN BioRxivFormatResult(server, up.items[1])
    ELSE ErrorValue(<<"No metadata found for DOI: ">> \o identifier)

ArXivGetMetadata(identifier, up) ==
    IF up.exc THEN ErrorValue(<<"Error fetching metadata: ", "Exception">>)
    ELSE IF up.status # 200
    THEN ErrorValue(<<"Could not retrieve metadata for arXiv ID: ">> \o identifier)
    ELSE LET results == ArXivParseResponse(up.items) IN
         IF results # <<>> THEN results[1]
         ELSE ErrorValue(<<"No metadata found for arXiv ID: ">> \o identifier)

SemanticGetMetadata(identifier, up) ==
    IF up.exc THEN ErrorValue(<<"Error fetching metadata: ", "Exception">>)
    ELSE IF up.status # 200
    THEN ErrorValue(<<"Could not retrieve metadata for ID: ">> \o identifier)
    ELSE IF SemanticFormatThrows(up.items[1])
    THEN ErrorValue(<<"Error fetching metadata: ", "TypeError">>)
    ELSE SemanticFormatResult(up.items[1])

----------------------------------------------------------------------------
(* academic_server.py: the registry *)

\* the keys of the adapters dict, in insertion order
AVAILABLE_SOURCES == <<"pubmed", "biorxiv", "medrxiv", "arxiv", "semantic_scholar">>

InRegistry(source) == \E i \in 1..Len(AVAILABLE_SOURCES) : AVAILABLE_SOURCES[i] = source

\* position of a registered source in the registry
RegIndex(source) == CHOOSE i \in 1..Len(AVAILABLE_SOURCES) : AVAILABLE_SOURCES[i] = source

----------------------------------------------------------------------------
(* What the providers can answer.  A paper is drawn from a small catalogue *)
(* of (identifier, title) pairs and rendered in each provider's native     *)
(* keys; a title may be missing, and in the JSON and XML payloads null.    *)

Titled ==
    {[id |-> <<"1">>, title |-> <<"a">>],
     [id |-> <<"2">>, title |-> <<" ", "A", " ">>],
     [id |-> <<"1">>, title |-> <<"b">>]}

Untitled == {[id |-> <<"2">>]}

NullTitled == {[id |-> <<"2">>, title |-> NoneVal]}

\* what the PubMed collaborator hands back per article: its native fields,
\* or a structured error
PubMedItems ==
    {[PMID |-> b.id, Title |-> b.title] : b \in Titled}
    \cup {[PMID |-> b.id] : b \in Untitled}
    \cup {[error |-> <<"An error occurred">>]}

ArXivItems ==
    {[id |-> <<"http://arxiv.org", "/abs/">> \o b.id, title |-> b.title] :
        b \in Titled \cup NullTitled}
    \cup {[id |-> <<"http://arxiv.org", "/abs/">> \o b.id] : b \in Untitled}

\* a paper that matches the keywords of the model, one that does not, and
\* one with a null title
BioRxivItems ==
    {[doi |-> b.id, title |-> b.title] :
        b \in {t \in Titled : t.id = <<"1">>} \cup NullTitled}

SemanticItems ==
    {[paperId |-> b.id, title |-> b.title] : b \in Titled \cup NullTitled}
    \cup {[paperId |-> b.id] : b \in Untitled}

\* the replies to one call: it throws, it is refused, or it carries items
Replies(Items) ==
    {Reply(TRUE, 0, <<>>), Reply(FALSE, 500, <<>>)}
    \cup {Reply(FALSE, 200, items) : items \in SeqUpTo(Items, MaxItems)}

\* the listings the paging loop can read: up to MaxPages non-empty pages,
\* then possibly a call that throws or is refused; the loop reads nothing
\* past such a call, and past the last page the listing is empty
BioRxivPages ==
    {Reply(FALSE, 200, items) :
        items \in SeqUpTo(BioRxivItems, MaxPageItems) \ {<<>>}}

BioRxivListings ==
    UNION {{good \o last : last \in {<<>>, <<Reply(TRUE, 0, <<>>)>>, <<Reply(FALSE, 500, <<>>)>>}} :
               good \in SeqUpTo(BioRxivPages, MaxPages)}

\* the collaborator throws or returns a list
PubMedReplies ==
    {Reply(TRUE, 0, <<>>)}
    \cup {Reply(FALSE, 200, items) : items \in SeqUpTo(PubMedItems, MaxItems)}

----------------------------------------------------------------------------
(* academic_server.py: the requests the tools are called with *)

\* the optional arguments of search_papers_advanced
CriteriaKeys == {"title", "author", "journal", "start_date", "end_date", "term"}

NoCriteria == [k \in CriteriaKeys |-> NoneVal]

Date1 == <<"2", "0", "2", "4", "-", "0", "1", "-", "0", "1">>
Date2 == <<"2", "0", "2", "4", "-", "0", "6", "-", "0", "1">>

\* the combinations of optional arguments the model sends
CriteriaSet ==
    {NoCriteria,
     [NoCriteria EXCEPT !.title = <<"a">>],
     [NoCriteria EXCEPT !.title = <<>>],
     [NoCriteria EXCEPT !.author = <<"a">>],
     [NoCriteria EXCEPT !.term = <<"a">>],
     [NoCriteria EXCEPT !.start_date = Date1, !.end_date = Date2]}

KeywordSet == {<<"a">>}

Selectors ==
    {AVAILABLE_SOURCES[i] : i \in 1..Len(AVAILABLE_SOURCES)}
    \cup {"all", "nonexistent_source", "scihub"}

\* SearchParams keeping only the values that are true
SearchParamsTruthy(criteria, num_results) ==
    [k \in {c \in CriteriaKeys : Truthy(criteria[c])}
            \cup (IF num_results # 0 THEN {"num_results"} ELSE {}) |->
        IF k = "num_results" THEN num_results ELSE criteria[k]]

\* search_params after the None values are removed
SearchParams(criteria, num_results) ==
    [k \in {c \in CriteriaKeys : criteria[c] # NoneVal} \cup {"num_results"} |->
        IF k = "num_results" THEN num_results ELSE criteria[k]]

NoRequest == [op |-> "none"]

KeywordRequest(keywords, source, num_results) ==
    [op |-> "search_by_keywords", keywords |-> keywords, source |-> source,
     num_results |-> num_results]

\* criteria holds the six optional arguments as the tool received them,
\* kwargs the search_params built from them
AdvancedRequest(criteria, source, num_results) ==
    [op |-> "search_advanced", kwargs |-> SearchParams(criteria, num_results),
     source |-> source, num_results |-> num_results, criteria |-> criteria]

\* the adapter-facing part of a request: the operation and its arguments
CallOf(r) ==
    IF r.op = "search_by_keywords"
    THEN [op |-> r.op, keywords |-> r.keywords, num_results |-> r.num_results]
    ELSE [op |-> r.op, kwargs |-> r.kwargs]

Calls ==
    {[op |-> "search_by_keywords", keywords |-> k, num_results |-> n] :
        k \in KeywordSet, n \in 0..MaxNum}
    \cup {[op |-> "search_advanced", kwargs |-> SearchParams(c, n)] :
        c \in CriteriaSet, n \in 0..MaxNum}

----------------------------------------------------------------------------
(* The adapter operation the thread runs, per registered source *)

PubMedRun(c, up) == PubMedSearch(up)

BioRxivRun(server, c, pages) ==
    IF c.op = "search_by_keywords"
    THEN BioRxivSearchByKeywords(server, c.keywords, c.num_results, pages)
    ELSE BioRxivSearchAdvanced(server, c.kwargs, pages)

ArXivRun(c, up) ==
    IF c.op = "search_by_keywords" THEN ArXivSearchByKeywords(up)
    ELSE ArXivSearchAdvanced(c.kwargs, up)

SemanticRun(c, up) ==
    IF c.op = "search_by_keywords" THEN SemanticSearchByKeywords(up)
    ELSE SemanticSearchAdvanced(c.kwargs, up)

\* every list the operation of a source can return for a call, over all
\* upstream behaviours
ReturnsOf ==
    [name \in {AVAILABLE_SOURCES[i] : i \in 1..Len(AVAILABLE_SOURCES)} |->
      [c \in Calls |->
        CASE name = "pubmed" -> {PubMedRun(c, up) : up \in PubMedReplies}
          [] name \in {"biorxiv", "medrxiv"} ->
               {BioRxivRun(name, c, pages) : pages \in BioRxivListings}
          [] name = "arxiv" -> {ArXivRun(c, up) : up \in Replies(ArXivItems)}
          [] name = "semantic_scholar" ->
               {SemanticRun(c, up) : up \in Replies(SemanticItems)}]]

----------------------------------------------------------------------------
(* academic_server.py: search_papers and search_papers_advanced *)

\* ', '.join(AVAILABLE_SOURCES)
JoinedSources == JoinComma([i \in 1..Len(AVAILABLE_SOURCES) |-> <<AVAILABLE_SOURCES[i]>>])

\* InvalidSourceMsg without the closing 'all'
InvalidSourceMsgNoAll(op, source) ==
    <<"Invalid source '", source, "'. ">>
    \o (IF op = "search_by_keywords" THEN <<"Available sources: ">> ELSE <<"Available: ">>)
    \o JoinedSources

\* the message of the else branch of the two tools
InvalidSourceMsg(op, source) ==
    <<"Invalid source '", source, "'. ">>
    \o (IF op = "search_by_keywords" THEN <<"Available sources: ">> ELSE <<"Available: ">>)
    \o JoinedSources \o <<",", " ", "'", "all", "'">>

\* the message of the outer except of the two tools
FailureMsg(op, e) ==
    IF op = "search_by_keywords"
    THEN <<"An error occurred while searching: ", e>>
    ELSE <<"Error in advanced search: ", e>>

NoReturn == [kind |-> "none", v |-> <<>>]

\* one adapter operation handed to asyncio.to_thread
Invocation(name, r) == [name |-> name, call |-> CallOf(r)]

\* the tool is entered with request r and runs to its first await, or to
\* its return when the selector is invalid
Enter(r) ==
    /\ pc = "idle"
    /\ req' = r
    /\ all_results' = <<>>
    /\ ret' = NoReturn
    /\ IF r.source = "all"
       THEN /\ pc' = "await"
            /\ idx' = 1
            /\ called' = <<Invocation(AVAILABLE_SOURCES[1], r)>>
            /\ result' = <<>>
       ELSE IF InRegistry(r.source)
       THEN /\ pc' = "await"
            /\ idx' = RegIndex(r.source)
            /\ called' = <<Invocation(r.source, r)>>
            /\ result' = <<>>
       ELSE /\ pc' = "done"
            /\ idx' = 0
            /\ called' = <<>>
            /\ result' = <<[error |-> InvalidSourceMsg(r.op, r.source)]>>
    /\ UNCHANGED <<m_in, m_out, a_in, a_out, tasks, registry, scan>>

search_papers ==
    \E keywords \in KeywordSet, source \in Selectors, num_results \in 0..MaxNum :
        Enter(KeywordRequest(keywords, source, num_results))

search_papers_advanced ==
    \E criteria \in CriteriaSet, source \in Selectors, num_results \in 0..MaxNum :
        Enter(AdvancedRequest(criteria, source, num_results))

\* SetItem putting the new key first
SetItemFront(d, k, v) == <<[k |-> k, v |-> v]>> \o d

\* all_results[source_name] = results: a new key goes last
SetItem(d, k, v) == Append(d, [k |-> k, v |-> v])

\* the "all" loop after the await of adapter idx is over, with all2 the
\* all_results dict: either the next adapter is awaited, or the loop ends
\* and the merged list is returned; an exception thrown by the merge is
\* caught by the outer handler
LoopOn(all2) ==
    /\ all_results' = all2
    /\ IF idx < Len(AVAILABLE_SOURCES)
       THEN /\ idx' = idx + 1
            /\ called' = Append(called, Invocation(AVAILABLE_SOURCES[idx + 1], req))
            /\ pc' = "await"
            /\ result' = <<>>
       ELSE LET m == merge_results_from_sources(all2) IN
            /\ idx' = idx
            /\ called' = called
            /\ pc' = "done"
            /\ result' = IF m.raised
                         THEN <<[error |-> FailureMsg(req.op, "AttributeError")]>>
                         ELSE m.merged


\* under "all", the awaited adapter returns a list
AllAdapterReturns ==
    /\ pc = "await" /\ req.source = "all"
    /\ \E results \in ReturnsOf[AVAILABLE_SOURCES[idx]][CallOf(req)] :
        /\ TotalLen(all_results) + Len(results) <= MaxTotal
        /\ ret' = [kind |-> "returned", v |-> results]
        /\ LoopOn(IF results # <<>>
                  THEN SetItem(all_results, AVAILABLE_SOURCES[idx], results)
                  ELSE all_results)
    /\ UNCHANGED <<req, m_in, m_out, a_in, a_out, tasks, registry, scan>>

\* AllAdapterRaises leaving the loop: what was collected is merged at once
AllAdapterRaisesStops ==
    /\ pc = "await" /\ req.source = "all"
    /\ ret' = [kind |-> "raised", v |-> <<>>]
    /\ LET m == merge_results_from_sources(all_results) IN
       /\ pc' = "done"
       /\ result' = IF m.raised
                    THEN <<[error |-> FailureMsg(req.op, "AttributeError")]>>
                    ELSE m.merged
    /\ UNCHANGED <<req, idx, all_results, called, m_in, m_out, a_in, a_out, tasks, registry, scan>>

\* under "all", the await throws: the inner handler logs it and the loop
\* goes on
AllAdapterRaises ==
    /\ pc = "await" /\ req.source = "all"
    /\ ret' = [kind |-> "raised", v |-> <<>>]
    /\ LoopOn(all_results)
    /\ UNCHANGED <<req, m_in, m_out, a_in, a_out, tasks, registry, scan>>

\* SingleAdapterReturns passing the list through the merge
SingleAdapterReturnsMerged ==
    /\ pc = "await" /\ req.source # "all"
    /\ \E results \in ReturnsOf[req.source][CallOf(req)] :
        /\ Len(results) <= MaxTotal
        /\ ret' = [kind |-> "returned", v |-> results]
        /\ LET m == merge_results_from_sources(<<[k |-> req.source, v |-> results]>>) IN
           result' = IF m.raised
                     THEN <<[error |-> FailureMsg(req.op, "AttributeError")]>>
                     ELSE m.merged
    /\ pc' = "done"
    /\ UNCHANGED <<req, idx, all_results, called, m_in, m_out, a_in, a_out, tasks, registry, scan>>

\* a single source: its list is the tool's return value
SingleAdapterReturns ==
    /\ pc = "await" /\ req.source # "all"
    /\ \E results \in ReturnsOf[req.source][CallOf(req)] :
        /\ Len(results) <= MaxTotal
        /\ ret' = [kind |-> "returned", v |-> results]
        /\ result' = results
    /\ pc' = "done"
    /\ UNCHANGED <<req, idx, all_results, called, m_in, m_out, a_in, a_out, tasks, registry, scan>>

\* a single source: the await throws into the outer handler
SingleAdapterRaises ==
    /\ pc = "await" /\ req.source # "all"
    /\ ret' = [kind |-> "raised", v |-> <<>>]
    /\ result' = <<[error |-> FailureMsg(req.op, "RuntimeError")]>>
    /\ pc' = "done"
    /\ UNCHANGED <<req, idx, all_results, called, m_in, m_out, a_in, a_out, tasks, registry, scan>>

\* the response has been delivered; nothing of the request is kept
Respond ==
    /\ pc = "done"
    /\ pc' = "idle"
    /\ req' = NoRequest
    /\ idx' = 0
    /\ all_results' = <<>>
    /\ called' = <<>>
    /\ ret' = NoReturn
    /\ result' = <<>>
    /\ UNCHANGED <<m_in, m_out, a_in, a_out, tasks, registry, scan>>

\* no direct adapter call is in progress
NoCall == [op |-> "none"]

NoOutcome == [done |-> FALSE]

NoMerge == [merged |-> <<>>, seen_ids |-> {}, seen_titles |-> {}, kept |-> <<>>,
            raised |-> FALSE, done |-> FALSE]

\* the coroutines the event loop can hold
TaskIds == 1..MaxTasks

\* a coroutine that is not running: no locals exist
IdleTask ==
    [pc |-> "idle", req |-> NoRequest, idx |-> 0, all_results |-> <<>>,
     called |-> <<>>, got |-> <<>>, reqs |-> <<>>, result |-> <<>>]

\* the module globals as built at import: the keys of adapters in
\* insertion order, and AVAILABLE_SOURCES = list(adapters.keys())
Registry == [adapters |-> AVAILABLE_SOURCES, available |-> AVAILABLE_SOURCES]

\* no paging loop is running
NoScan == [pc |-> "none"]

Init ==
    /\ pc = "idle"
    /\ req = NoRequest
    /\ idx = 0
    /\ all_results = <<>>
    /\ called = <<>>
    /\ ret = NoReturn
    /\ result = <<>>
    /\ m_in = <<>>
    /\ m_out = NoMerge
    /\ a_in = NoCall
    /\ a_out = NoOutcome
    /\ tasks = [t \in TaskIds |-> IdleTask]
    /\ registry = Registry
    /\ scan = NoScan

Next ==
    \/ search_papers
    \/ search_papers_advanced
    \/ AllAdapterReturns
    \/ AllAdapterRaises
    \/ SingleAdapterReturns
    \/ SingleAdapterRaises
    \/ Respond

Spec == Init /\ [][Next]_vars

----------------------------------------------------------------------------
(* merge_results_from_sources called directly on any mapping *)

\* the records of the mappings: papers with an id and a title, either of
\* them possibly empty, a record with a null title, and an error dict,
\* which has neither key
MergeRecords ==
    {[id |-> <<"1">>, title |-> <<"a">>],
     [id |-> <<"1">>, title |-> <<"b">>],
     [id |-> <<"2">>, title |-> <<" ", "A", " ">>],
     [id |-> <<"2">>, title |-> <<"b">>],
     [id |-> <<>>, title |-> <<"A">>],
     [id |-> <<>>, title |-> <<>>],
     [id |-> <<"2">>, title |-> NoneVal],
     [error |-> <<"An error occurred">>]}

\* the ways to cut a list of length len into k consecutive lists; of
\* several lists none is empty, as in the mappings the dispatch builds,
\* and a single list may be
Cuts(len, k) ==
    {c \in [0..k -> 0..len] :
        /\ c[0] = 0 /\ c[k] = len
        /\ \A i \in 1..k : IF k = 1 THEN c[i - 1] <= c[i] ELSE c[i - 1] < c[i]}

\* the ordered dict whose i-th list is the i-th piece of flat
MkDict(flat, k, c) ==
    [i \in 1..k |-> [k |-> AVAILABLE_SOURCES[i],
                     v |-> SubSeq(flat, c[i - 1] + 1, c[i])]]

InitMerge ==
    /\ pc = "idle"
    /\ req = NoRequest
    /\ idx = 0
    /\ all_results = <<>>
    /\ called = <<>>
    /\ ret = NoReturn
    /\ result = <<>>
    /\ \E len \in 0..MaxMergeTotal, k \in 1..MaxMergeSources :
           \E c \in Cuts(len, k), flat \in [1..len -> MergeRecords] :
               m_in = MkDict(flat, k, c)
    /\ m_out = NoMerge
    /\ a_in = NoCall
    /\ a_out = NoOutcome
    /\ tasks = [t \in TaskIds |-> IdleTask]
    /\ registry = Registry
    /\ scan = NoScan

\* the call returns, or throws
MergeCall ==
    /\ ~m_out.done
    /\ LET m == merge_results_from_sources(m_in) IN
       m_out' = [merged |-> m.merged, seen_ids |-> m.seen_ids,
                 seen_titles |-> m.seen_titles, kept |-> m.kept,
                 raised |-> m.raised, done |-> TRUE]
    /\ UNCHANGED <<pc, req, idx, all_results, called, ret, result, m_in, a_in, a_out, tasks, registry, scan>>

NextMerge == MergeCall

SpecMerge == InitMerge /\ [][NextMerge]_vars

----------------------------------------------------------------------------
(* The operations of the adapters and the lookup tool called directly, on  *)
(* any arguments and any upstream behaviour                                *)

\* the adapter objects: the five of the registry and a SciHubAdapter
AdapterNames ==
    {AVAILABLE_SOURCES[i] : i \in 1..Len(AVAILABLE_SOURCES)} \cup {"scihub"}

Stamp1 == <<"2", "0", "2", "3", "-", "1", "2", "-", "3", "1", "T", "0", "0">>
Stamp2 == <<"2", "0", "2", "4", "-", "0", "1", "-", "0", "1", "T", "0", "0">>
Stamp3 == <<"2", "0", "2", "4", "-", "0", "6", "-", "0", "1", "T", "2", "3">>
Stamp4 == <<"2", "0", "2", "4", "-", "0", "6", "-", "0", "2", "T", "0", "0">>

\* feed entries with a published timestamp before, at the two ends of, and
\* after the range Date1..Date2, one with an empty published element, and
\* the entries of ArXivItems, which have none
DatedArXivItems ==
    {[id |-> <<"http://arxiv.org", "/abs/">> \o <<"1">>, title |-> <<"a">>, published |-> t] :
        t \in {Stamp1, Stamp2, Stamp3, Stamp4, NoneVal}}
    \cup ArXivItems

\* papers with authors, one of them with a null name, and a paper whose
\* abstract and venue are null
AuthoredSemanticItems ==
    {[paperId |-> <<"1">>, title |-> <<"a">>, authors |-> <<[name |-> <<"A", " ", "b">>]>>],
     [paperId |-> <<"2">>, title |-> <<"b">>, authors |-> <<[name |-> <<"b">>]>>],
     [paperId |-> <<"2">>, title |-> <<"b">>, authors |-> <<[name |-> NoneVal]>>],
     [paperId |-> <<"1">>, title |-> <<"a">>, abstract |-> NoneVal, venue |-> NoneVal]}
    \cup SemanticItems

DayBefore == <<"2", "0", "2", "3", "-", "1", "2", "-", "3", "1">>
DayInside == <<"2", "0", "2", "4", "-", "0", "3", "-", "0", "5">>

\* the pages of a listing read directly: a matching paper dated inside the
\* range Date1..Date2, one dated before it, a pair of them, a paper that
\* does not match, one whose title is null, and one that matches by its
\* abstract and its authors only
DatedBioRxivPages ==
    LET inside == [doi |-> <<"1">>, title |-> <<"a">>, date |-> DayInside]
        before == [doi |-> <<"2">>, title |-> <<"A">>, date |-> DayBefore]
    IN  {Reply(FALSE, 200, <<inside>>), Reply(FALSE, 200, <<before>>),
         Reply(FALSE, 200, <<inside, before>>),
         Reply(FALSE, 200, <<[doi |-> <<"1">>, title |-> <<"b">>, date |-> DayInside]>>),
         Reply(FALSE, 200, <<[doi |-> <<"2">>, title |-> NoneVal, date |-> DayInside]>>),
         Reply(FALSE, 200, <<[doi |-> <<"3">>, title |-> <<"b">>, abstract |-> <<"x", "A">>,
                              authors |-> <<"b", ";">>, date |-> DayInside]>>)}

\* the numbers of records that follow the first ones of a page: none, or
\* enough for two pages, or for little more than one, to reach ScanCeiling
PadSizes == {0, ScanCeiling \div 2 - 1, ScanCeiling - 2}

\* the listings: pages of one size, then possibly a failing call
DatedBioRxivListings ==
    UNION {{[i \in 1..Len(good) |-> [exc |-> FALSE, status |-> 200,
                                      items |-> good[i].items, pad |-> pad]] \o last :
               last \in {<<>>, <<Reply(TRUE, 0, <<>>)>>, <<Reply(FALSE, 500, <<>>)>>},
               pad \in PadSizes} :
           good \in SeqUpTo(DatedBioRxivPages, MaxPages)}

\* the items of a CrossRef reply: with and without DOI, with a created
\* date, with a created date whose month is null
SciHubItems ==
    {[DOI |-> <<"1">>, title |-> <<<<"a">>>>],
     [title |-> <<<<"b">>>>],
     [DOI |-> <<"2">>, created |-> [date_parts |-> <<<<IntPart(2024), IntPart(3)>>>>]],
     [DOI |-> <<"2">>, created |-> [date_parts |-> <<<<IntPart(2024), NullPart>>>>]]}

\* the CrossRef reply together with the set of DOIs Sci-Hub delivers
SciHubReplies ==
    {[exc |-> TRUE, status |-> 0, items |-> <<>>, fetched |-> {}],
     [exc |-> FALSE, status |-> 500, items |-> <<>>, fetched |-> {}]}
    \cup {[exc |-> FALSE, status |-> 200, items |-> items, fetched |-> f] :
             items \in SeqUpTo(SciHubItems, MaxItems), f \in SUBSET {<<"1">>, <<"2">>}}

\* what the upstream of an adapter can answer to a search
SearchUpstream(name) ==
    CASE name = "pubmed" -> PubMedReplies
      [] name \in {"biorxiv", "medrxiv"} -> DatedBioRxivListings
      [] name = "arxiv" -> Replies(DatedArXivItems)
      [] name = "semantic_scholar" -> Replies(AuthoredSemanticItems)
      [] name = "scihub" -> SciHubReplies

\* the combinations of optional arguments of a direct search_advanced
DirectCriteria ==
    CriteriaSet
    \cup {[NoCriteria EXCEPT !.journal = <<"a">>],
          [NoCriteria EXCEPT !.author = <<"B">>],
          [NoCriteria EXCEPT !.title = <<"a">>, !.start_date = Date1, !.end_date = Date2],
          [NoCriteria EXCEPT !.title = <<"a">>, !.start_date = Date1],
          [NoCriteria EXCEPT !.title = <<"a">>, !.end_date = Date2]}

\* num_results around half of SemanticMaxLimit, where the doubled limit
\* meets the cap
LargeNums == {SemanticMaxLimit \div 2, SemanticMaxLimit \div 2 + 1}

NumsOf(name) == (0..MaxNum) \cup (IF name = "semantic_scholar" THEN LargeNums ELSE {})

KeywordCalls(name) ==
    {[op |-> "search_by_keywords", keywords |-> k, num_results |-> n] :
        k \in KeywordSet, n \in NumsOf(name)}

AdvancedCalls(name) ==
    {[op |-> "search_advanced", kwargs |-> SearchParams(c, n)] :
        c \in DirectCriteria, n \in NumsOf(name)}

\* the paging loop a bioRxiv operation runs; an operation that throws
\* before the loop has issued no request
BioRxivLoopOf(server, c, pages) ==
    IF c.op = "search_by_keywords"
    THEN BioRxivLoop(server, <<>>, 0, pages, c.num_results,
                     [adv |-> FALSE, kw |-> Lower(c.keywords)])
    ELSE IF BioRxivDatesThrow(c.kwargs)
    THEN [all |-> <<>>, exc |-> TRUE, cursor |-> 0, left |-> pages, log |-> <<>>,
          seen |-> 0]
    ELSE BioRxivLoop(server, <<>>, 0, pages, Get(c.kwargs, "num_results", 10),
                     [adv |-> TRUE, title |-> Lower(Get(c.kwargs, "title", <<>>)),
                      author |-> Lower(Get(c.kwargs, "author", <<>>))])

\* TRUE when the operation reaches its requests.get
IssuesRequest(name, c) ==
    \/ c.op = "search_by_keywords"
    \/ name = "arxiv" /\ ArXivHasQuery(c.kwargs)
    \/ name = "semantic_scholar" /\ SemanticHasQuery(c.kwargs)

\* the limit parameter of a Semantic Scholar request
SemanticLimitOf(c) ==
    IF c.op = "search_by_keywords" THEN SemanticKwLimit(c.num_results)
    ELSE SemanticAdvLimit(Get(c.kwargs, "num_results", 10))

\* one adapter operation from call to return: v is the value returned, net
\* the number of requests the adapter issues (for PubMed the one call of
\* the collaborator, which issues the requests),
\* log the requests of a paging loop or the DOIs handed to Sci-Hub, scanned
\* the number of records the for loops of a paging loop have looked at,
\* limit the limit parameter sent
OutcomeOf(name, c, up, available) ==
    CASE name = "pubmed" ->
           [v |-> PubMedRun(c, up), net |-> 1, log |-> <<>>, scanned |-> 0, limit |-> 0]
      [] name \in {"biorxiv", "medrxiv"} ->
           LET loop == BioRxivLoopOf(name, c, up) IN
           [v |-> BioRxivRun(name, c, up), net |-> Len(loop.log), log |-> loop.log,
            scanned |-> loop.seen, limit |-> 0]
      [] name = "arxiv" ->
           [v |-> ArXivRun(c, up), net |-> IF IssuesRequest(name, c) THEN 1 ELSE 0,
            log |-> <<>>, scanned |-> 0, limit |-> 0]
      [] name = "semantic_scholar" ->
           [v |-> SemanticRun(c, up), net |-> IF IssuesRequest(name, c) THEN 1 ELSE 0,
            log |-> <<>>, scanned |-> 0,
            limit |-> IF IssuesRequest(name, c) THEN SemanticLimitOf(c) ELSE 0]
      [] name = "scihub" ->
           LET r == IF c.op = "search_by_keywords"
                    THEN SciHubSearchByKeywords(available, c.num_results, up)
                    ELSE SciHubSearchAdvanced(available, c.kwargs, up)
           IN  [v |-> r.v, net |-> r.net, log |-> r.log, scanned |-> 0, limit |-> 0]

Returned(o) ==
    [done |-> TRUE, v |-> o.v, net |-> o.net, log |-> o.log, scanned |-> o.scanned,
     limit |-> o.limit]

\* the operation of call c runs on adapter name against upstream up
DirectCall(name, c, up, available) ==
    /\ a_in' = [op |-> c.op, adapter |-> name, call |-> c, up |-> up,
                available |-> available]
    /\ a_out' = Returned(OutcomeOf(name, c, up, available))
    /\ UNCHANGED <<pc, req, idx, all_results, called, ret, result, m_in, m_out, tasks, registry, scan>>

\* the import of the scihub library in __init__ succeeds or fails
Availability(name) == IF name = "scihub" THEN BOOLEAN ELSE {TRUE}

AdapterSearchByKeywords ==
    /\ ~a_out.done
    /\ \E name \in AdapterNames :
        \E c \in KeywordCalls(name), up \in SearchUpstream(name),
           available \in Availability(name) :
            DirectCall(name, c, up, available)

AdapterSearchAdvanced ==
    /\ ~a_out.done
    /\ \E name \in AdapterNames :
        \E c \in AdvancedCalls(name), up \in SearchUpstream(name),
           available \in Availability(name) :
            DirectCall(name, c, up, available)

\* the JSON object {}
EmptyObject == [k \in {} |-> NoneVal]

\* the identifiers looked up
Identifiers == {<<"1">>}

\* what the upstream of a registered adapter can answer to a lookup: the
\* call throws, is refused, or returns a body whose payload is empty or
\* holds one item; an empty payload is None from the PubMed collaborator,
\* an empty collection, a feed without entry, a JSON object without keys
LookupUpstream(name) ==
    {Reply(TRUE, 0, <<>>), Reply(FALSE, 404, <<>>)}
    \cup CASE name = "pubmed" ->
                 {Reply(FALSE, 200, items) : items \in SeqUpTo(PubMedItems, 1)}
            [] name \in {"biorxiv", "medrxiv"} ->
                 {Reply(FALSE, 200, items) : items \in SeqUpTo(BioRxivItems, 1)}
            [] name = "arxiv" ->
                 {Reply(FALSE, 200, items) : items \in SeqUpTo(DatedArXivItems, 1)}
            [] name = "semantic_scholar" ->
                 {Reply(FALSE, 200, <<paper>>) : paper \in AuthoredSemanticItems \cup {EmptyObject}}

\* adapter.get_metadata
GetMetadata(name, identifier, up) ==
    CASE name = "pubmed" -> PubMedGetMetadata(identifier, up)
      [] name \in {"biorxiv", "medrxiv"} -> BioRxivGetMetadata(name, identifier, up)
      [] name = "arxiv" -> ArXivGetMetadata(identifier, up)
      [] name = "semantic_scholar" -> SemanticGetMetadata(identifier, up)

\* the message for a source that is not a key of adapters
InvalidLookupMsg(source) ==
    <<"Invalid source '", source, "'. ", "Available: ">> \o JoinedSources

\* the tool get_paper_metadata from call to return; thrown is set when the
\* await itself throws, into the handler of the tool
get_paper_metadata ==
    /\ ~a_out.done
    /\ \E identifier \in Identifiers, source \in Selectors :
        IF ~InRegistry(source)
        THEN /\ a_in' = [op |-> "get_paper_metadata", source |-> source,
                         identifier |-> identifier]
             /\ a_out' = [done |-> TRUE, v |-> ErrorValue(InvalidLookupMsg(source)),
                          net |-> 0, raised |-> FALSE]
        ELSE \E up \in LookupUpstream(source), thrown \in BOOLEAN :
             /\ a_in' = [op |-> "get_paper_metadata", source |-> source,
                         identifier |-> identifier, up |-> up, thrown |-> thrown]
             /\ a_out' = [done |-> TRUE,
                          v |-> IF thrown
                                THEN ErrorValue(<<"Error fetching metadata: ", "RuntimeError">>)
                                ELSE GetMetadata(source, identifier, up),
                          net |-> 1, raised |-> FALSE]
    /\ UNCHANGED <<pc, req, idx, all_results, called, ret, result, m_in, m_out, tasks, registry, scan>>

NextAdapter ==
    \/ AdapterSearchByKeywords
    \/ AdapterSearchAdvanced
    \/ get_paper_metadata

SpecAdapter == Init /\ [][NextAdapter]_vars

----------------------------------------------------------------------------
(* Properties of merge_results_from_sources, under SpecMerge *)

Range(s) == {s[i] : i \in 1..Len(s)}

IdOf(rec) == Get(rec, "id", <<>>)

\* the title of a record, lower-cased and trimmed
TitleOf(rec) == Strip(Lower(Get(rec, "title", <<>>)))

MergeReturned == m_out.done /\ ~m_out.raised

\* the output is made of the input records at the kept positions, in order
KeptIsOutput ==
    LET flat == Flatten(m_in) IN
    /\ \A i \in 1..Len(m_out.kept) : m_out.kept[i] \in 1..Len(flat)
    /\ \A i \in 1..(Len(m_out.kept) - 1) : m_out.kept[i] < m_out.kept[i + 1]
    /\ m_out.merged = [i \in 1..Len(m_out.kept) |-> flat[m_out.kept[i]]]

\* source A = [a1, a2], source B = [b1, b2] with b1 carrying the id of a2
ExampleA == <<[id |-> <<>>, title |-> <<>>], [id |-> <<"1">>, title |-> <<"a">>]>>
ExampleB == <<[id |-> <<"1">>, title |-> <<"b">>], [id |-> <<"2">>, title |-> <<"b">>]>>
ExampleAB == <<[k |-> "pubmed", v |-> ExampleA], [k |-> "biorxiv", v |-> ExampleB]>>

\* C1: whenever the merge returns, a record whose non-empty id is the id of
\* a record retained earlier in iteration order (in an earlier source or
\* earlier in its own source) is not in the output, the output is the
\* retained records at their input positions in input order, and for
\* A = [a1, a2], B = [b1, b2] with b1.id = a2.id the output is [a1, a2, b2].
C1_CrossSourceIdDedup ==
    MergeReturned =>
        LET flat == Flatten(m_in) IN
        /\ KeptIsOutput
        /\ \A j \in 1..Len(flat) : \A i \in 1..(j - 1) :
              (/\ i \in Range(m_out.kept)
               /\ Truthy(IdOf(flat[j]))
               /\ IdOf(flat[i]) = IdOf(flat[j]))
              => j \notin Range(m_out.kept)
        /\ m_in = ExampleAB => m_out.merged = <<ExampleA[1], ExampleA[2], ExampleB[2]>>

\* the merge of the example has returned [a1, a2, b2]
C1_Witness ==
    /\ MergeReturned
    /\ m_in = ExampleAB
    /\ m_out.kept = <<1, 2, 4>>

\* two records with distinct or empty ids and the same non-empty normalized
\* title
TitleTwins(r1, r2) ==
    /\ "title" \in DOMAIN r1 /\ "title" \in DOMAIN r2
    /\ r1.title # NoneVal /\ r2.title # NoneVal
    /\ Truthy(TitleOf(r1)) /\ TitleOf(r1) = TitleOf(r2)
    /\ ~Truthy(IdOf(r1)) \/ ~Truthy(IdOf(r2)) \/ IdOf(r1) # IdOf(r2)

DuplicateFree(list) ==
    /\ \A i \in 1..Len(list) : Get(list[i], "title", <<>>) # NoneVal
    /\ \A i, j \in 1..Len(list) :
          i < j => /\ ~(Truthy(IdOf(list[i])) /\ IdOf(list[i]) = IdOf(list[j]))
                   /\ ~(Truthy(TitleOf(list[i])) /\ TitleOf(list[i]) = TitleOf(list[j]))

----------------------------------------------------------------------------
(* Properties of the dispatch, under Spec *)

IsError(rec) == "error" \in DOMAIN rec

AllDone == pc = "done" /\ req.op # "none" /\ req.source = "all"

SingleDone == pc = "done" /\ req.op # "none" /\ InRegistry(req.source)

InvalidDone ==
    pc = "done" /\ req.op # "none" /\ req.source # "all" /\ ~InRegistry(req.source)

\* s is t with some elements left out
RECURSIVE IsSubseqOf(_, _)
IsSubseqOf(s, t) ==
    IF s = <<>> THEN TRUE
    ELSE IF t = <<>> THEN FALSE
    ELSE IF Head(s) = Head(t) THEN IsSubseqOf(Tail(s), Tail(t))
    ELSE IsSubseqOf(s, Tail(t))

\* the merge of the collected lists threw
MergeThrew == merge_results_from_sources(all_results).raised

\* rec is in the list, or the list holds a record with its non-empty id or
\* its non-empty normalized title
Represented(rec, list) ==
    \E i \in 1..Len(list) :
        \/ list[i] = rec
        \/ /\ ~IsError(list[i])
           /\ \/ Truthy(IdOf(rec)) /\ IdOf(list[i]) = IdOf(rec)
              \/ /\ Get(list[i], "title", <<>>) # NoneVal
                 /\ Truthy(TitleOf(rec)) /\ TitleOf(list[i]) = TitleOf(rec)

\* C3: when a request for "all" returns, no element of the returned list is
\* an error dict, and every paper record an adapter returned is in the list
\* or is a duplicate of a record in it.
C3_FaultIsolation ==
    AllDone =>
        /\ \A i \in 1..Len(result) : ~IsError(result[i])
        /\ \A e \in 1..Len(all_results) : \A i \in 1..Len(all_results[e].v) :
              LET rec == all_results[e].v[i] IN
              (~IsError(rec) /\ rec.title # NoneVal) => Represented(rec, result)

\* C4: the list an adapter operation returns never holds more records than
\* the num_results of the request.
C4_CapInvariant ==
    ret.kind = "returned" => Len(ret.v) <= req.num_results

\* C5: when a request for "all" returns a merged list, the list is a
\* subsequence of the collected lists concatenated in the insertion order
\* of all_results, that order is the registry order, and therefore the
\* records of an earlier-registered source come before those of a
\* later-registered one.
C5_MergeOrder ==
    (AllDone /\ ~MergeThrew) =>
        /\ IsSubseqOf(result, Flatten(all_results))
        /\ \A i, j \in 1..Len(all_results) :
              i < j => RegIndex(all_results[i].k) < RegIndex(all_results[j].k)
        /\ \A i, j \in 1..Len(result) :
              (i < j /\ ~IsError(result[i]) /\ ~IsError(result[j]))
              => RegIndex(result[i].source) <= RegIndex(result[j].source)

\* two sources have contributed to a merged list of three records
C5_Witness ==
    /\ AllDone /\ ~MergeThrew
    /\ Len(result) = 3
    /\ \E i, j \in 1..3 :
          /\ ~IsError(result[i]) /\ ~IsError(result[j])
          /\ result[i].source # result[j].source

\* C7: a request whose selector is neither a registry key nor "all" returns
\* a list of exactly one element, an error dict whose message holds the
\* selector, every registry key and "all"; no adapter operation is invoked.
C7_InvalidSelector ==
    InvalidDone =>
        /\ Len(result) = 1
        /\ IsError(result[1])
        /\ req.source \in Range(result[1].error)
        /\ \A i \in 1..Len(AVAILABLE_SOURCES) :
              AVAILABLE_SOURCES[i] \in Range(result[1].error)
        /\ "all" \in Range(result[1].error)
        /\ called = <<>>
        /\ ret.kind = "none"

\* the advanced tool has answered the selector "nonexistent_source"
C7_Witness ==
    /\ InvalidDone
    /\ req.op = "search_advanced"
    /\ req.source = "nonexistent_source"
    /\ Len(result) = 1

\* C8: a request whose selector is a registry key invokes exactly one
\* adapter operation, the requested one of the selected source with the
\* request's arguments, and when that call returns a list the tool returns
\* this very list, repeated ids and titles included.
C8_SingleSourceDispatch ==
    SingleDone =>
        /\ called = <<[name |-> req.source, call |-> CallOf(req)]>>
        /\ called[1].call.op = req.op
        /\ ret.kind = "returned" => result = ret.v
        /\ all_results = <<>>

\* a single source has returned the same paper twice and the tool has
\* returned both
C8_Witness ==
    /\ SingleDone
    /\ ret.kind = "returned"
    /\ Len(result) = 2
    /\ result[1] = result[2]
    /\ ~IsError(result[1])

\* every registered adapter has been invoked once, in registry order, with
\* the operation of the request
CalledAll ==
    /\ Len(called) = Len(AVAILABLE_SOURCES)
    /\ \A i \in 1..Len(called) :
          /\ called[i].name = AVAILABLE_SOURCES[i]
          /\ called[i].call.op = req.op

\* C9: while a request for "all" awaits adapter idx, the operations invoked
\* so far are those of the first idx registered adapters, whatever the
\* earlier ones did, and the request returns only after the operation of
\* every registered adapter has been invoked.
C9_CompleteFanOut ==
    (req.op # "none" /\ req.source = "all") =>
        /\ pc = "await" =>
              called = [i \in 1..idx |-> Invocation(AVAILABLE_SOURCES[i], req)]
        /\ pc = "done" => CalledAll

\* the fourth adapter has thrown and the fifth has been invoked
C9_Witness ==
    /\ pc = "await" /\ req.source = "all"
    /\ ret.kind = "raised"
    /\ idx = Len(AVAILABLE_SOURCES)
    /\ Len(called) = Len(AVAILABLE_SOURCES)

\* C10: when a request for "all" returns and no adapter has returned a paper
\* record, the returned list is empty; when some adapter has returned a
\* record, the returned list is non-empty and is not an error result.
C10_TotalFailure ==
    AllDone =>
        LET flat == Flatten(all_results) IN
        /\ (\A i \in 1..Len(flat) : IsError(flat[i])) => result = <<>>
        /\ (\E i \in 1..Len(flat) : ~IsError(flat[i]))
              => /\ result # <<>>
                 /\ \A i \in 1..Len(result) : ~IsError(result[i])

----------------------------------------------------------------------------
(* Properties of the adapter operations and of the lookup tool, under      *)
(* SpecAdapter                                                             *)

SearchDone(op) == a_out.done /\ a_in.op = op

IsBioRxiv(name) == name \in {"biorxiv", "medrxiv"}

\* the reply is a thrown exception or a status other than 200
FailedReply(r) == r.exc \/ r.status # 200

\* some request of the call got a failed reply, the Sci-Hub client is
\* unavailable, or the handling of a CrossRef item threw
UpstreamFailed ==
    CASE IsBioRxiv(a_in.adapter) ->
           \E i \in 1..Min(Len(a_out.log), Len(a_in.up)) : FailedReply(a_in.up[i])
      [] a_in.adapter = "scihub" ->
           \/ ~a_in.available
           \/ FailedReply(a_in.up)
           \/ SciHubLoop(<<>>, <<>>, Take(a_in.up.items, a_in.call.num_results),
                         a_in.up.fetched).exc
      [] OTHER -> FailedReply(a_in.up)

\* C11: a search_by_keywords whose upstream call fails (exception, status
\* other than 200, unavailable client library) returns the empty list: no
\* records collected before the failure and no error entry.
C11_SearchAbsorbsFailures ==
    (SearchDone("search_by_keywords") /\ UpstreamFailed) => a_out.v = <<>>

\* the value of a lookup carries no paper: the call threw or was refused,
\* or the payload of the reply is empty
NoPaper ==
    \/ a_in.thrown
    \/ FailedReply(a_in.up)
    \/ a_in.up.items = <<>>
    \/ DOMAIN a_in.up.items[1] = {}

\* C12: get_paper_metadata returns a dict; it is an error value for a
\* source that is not registered, and for a registered source whenever the
\* await throws, the upstream call fails, or the reply holds no paper.
C12_LookupReturnsData ==
    SearchDone("get_paper_metadata") =>
        /\ ~a_out.raised
        /\ ~InRegistry(a_in.source) => IsError(a_out.v)
        /\ (InRegistry(a_in.source) /\ NoPaper) => IsError(a_out.v)

\* the criteria a provider's search_advanced reads to build its request
Mappable(name) ==
    CASE name = "pubmed" -> CriteriaKeys
      [] IsBioRxiv(name) -> {"title", "author", "start_date", "end_date"}
      [] name = "arxiv" -> {"title", "author", "term"}
      [] name = "semantic_scholar" -> {"term", "title", "author"}
      [] name = "scihub" -> {"title", "author", "journal", "term"}

\* C13: a search_advanced whose criteria hold no field the provider maps
\* returns the empty list and issues no request.  PubMed is left to its
\* collaborator, which the adapter calls whatever the criteria are.
C13_EmptyAdvancedSearch ==
    (SearchDone("search_advanced")
        /\ a_in.adapter # "pubmed"
        /\ Mappable(a_in.adapter) \cap DOMAIN a_in.call.kwargs = {})
    => (a_out.v = <<>> /\ a_out.net = 0)

CanonicalFields ==
    {"id", "title", "authors", "abstract", "publication_date", "journal", "url",
     "pdf_url", "source"}

\* every canonical field is present; the str-valued ones are not None
\* (pdf_url may be None, source is the name of the adapter)
WellShaped(rec, name) ==
    /\ CanonicalFields \subseteq DOMAIN rec
    /\ \A k \in CanonicalFields \ {"pdf_url", "source"} : rec[k] # NoneVal
    /\ rec.source = name

\* the records a finished operation has returned
ReturnedRecords ==
    IF a_in.op = "get_paper_metadata" THEN <<a_out.v>> ELSE a_out.v

ReturningAdapter ==
    IF a_in.op = "get_paper_metadata" THEN a_in.source ELSE a_in.adapter

\* C14: every record returned by an adapter operation that is not an error
\* dict holds all canonical fields, each with a str, pdf_url with a str or
\* None.
C14_ShapeInvariant ==
    a_out.done =>
        \A i \in 1..Len(ReturnedRecords) :
            ~IsError(ReturnedRecords[i])
            => WellShaped(ReturnedRecords[i], ReturningAdapter)

\* the payload of a paper has no title: the key is absent or null
NoTitle(item) ==
    /\ Get(item, "title", NoneVal) = NoneVal
    /\ Get(item, "Title", NoneVal) = NoneVal

\* C15: a returned record has a title that is a str and not a placeholder
\* text, and when the operation returns one record per item of the reply,
\* the record of an item without title has the empty title.
C15_UnavailableTitleEmpty ==
    (a_out.done /\ a_in.op # "get_paper_metadata") =>
        /\ \A i \in 1..Len(a_out.v) :
              ~IsError(a_out.v[i])
              => /\ "title" \in DOMAIN a_out.v[i]
                 /\ a_out.v[i].title # NoneVal
                 /\ a_out.v[i].title # NoTitleAvailable
        /\ (a_in.adapter \in {"pubmed", "semantic_scholar"}
              /\ a_in.op = "search_by_keywords"
              /\ Len(a_out.v) = Len(a_in.up.items))
           => \A i \in 1..Len(a_out.v) :
                 (~IsError(a_out.v[i]) /\ NoTitle(a_in.up.items[i]))
                 => a_out.v[i].title = <<>>

----------------------------------------------------------------------------
(* Properties of search_papers_advanced, under Spec *)

\* the optional arguments of the request that have a value
SetCriteria == {k \in CriteriaKeys : req.criteria[k] # NoneVal}

\* C16: every search_advanced invoked by search_papers_advanced, under one
\* source or under "all", receives as keyword arguments exactly the
\* optional arguments of the request that are not None, each with the
\* value of the request, and num_results; no argument passed is None.
C16_UnsetCriteriaNotForwarded ==
    (req.op = "search_advanced") =>
        \A i \in 1..Len(called) :
            LET kwargs == called[i].call.kwargs IN
            /\ called[i].call.op = "search_advanced"
            /\ DOMAIN kwargs = SetCriteria \cup {"num_results"}
            /\ \A k \in SetCriteria : kwargs[k] = req.criteria[k]
            /\ kwargs.num_results = req.num_results
            /\ \A k \in DOMAIN kwargs \ {"num_results"} : kwargs[k] # NoneVal

\* under "all", the last adapter has been invoked with the empty title of
\* the request and none of the five arguments left unset
C16_Witness ==
    /\ req.op = "search_advanced" /\ req.source = "all"
    /\ Len(called) = Len(AVAILABLE_SOURCES)
    /\ req.criteria.title = <<>>
    /\ DOMAIN called[Len(called)].call.kwargs = {"title", "num_results"}

----------------------------------------------------------------------------
(* Properties of the provider-specific searches, under SpecAdapter *)

\* s <= t for two strs
StrLeq(s, t) == s = t \/ StrLess(s, t)

\* the date lies in the range given by the criteria; a bound that is
\* absent or empty does not restrict
DateInRange(date, kwargs) ==
    /\ Truthy(KwGet(kwargs, "start_date")) => StrLeq(kwargs.start_date, date)
    /\ Truthy(KwGet(kwargs, "end_date")) => StrLeq(date, kwargs.end_date)

HasDateBound(kwargs) ==
    Truthy(KwGet(kwargs, "start_date")) \/ Truthy(KwGet(kwargs, "end_date"))

\* an arXiv search_advanced with a date bound has fetched and parsed a feed
ArXivDatedSearch ==
    /\ SearchDone("search_advanced") /\ a_in.adapter = "arxiv"
    /\ ArXivHasQuery(a_in.call.kwargs) /\ HasDateBound(a_in.call.kwargs)
    /\ ~FailedReply(a_in.up)

\* C17: an arXiv search_advanced with start_date and/or end_date returns
\* the records of the parsed feed whose publication_date, the first 10
\* characters of the published timestamp, is lexically within the bounds
\* given: every returned record is in the range, and the list is the
\* in-range records of the feed in feed order, none left out.
C17_ArXivDateFilter ==
    ArXivDatedSearch =>
        LET kwargs == a_in.call.kwargs
            parsed == ArXivParseResponse(a_in.up.items)
            InRange(r) == DateInRange(r.publication_date, kwargs)
        IN  /\ \A i \in 1..Len(a_out.v) : InRange(a_out.v[i])
            /\ a_out.v = SelectSeq(parsed, InRange)
            /\ \A i \in 1..Len(parsed) :
                  "published" \in DOMAIN a_in.up.items[i]
                  => parsed[i].publication_date = Take(a_in.up.items[i].published, 10)

\* of a feed holding an entry published on the start date and one published
\* the day after the end date, the first has been returned
C17_Witness ==
    /\ ArXivDatedSearch
    /\ KwGet(a_in.call.kwargs, "start_date") = Date1
    /\ KwGet(a_in.call.kwargs, "end_date") = Date2
    /\ Len(a_in.up.items) = 2
    /\ Get(a_in.up.items[1], "published", <<>>) = Stamp4
    /\ Get(a_in.up.items[2], "published", <<>>) = Stamp2
    /\ Len(a_out.v) = 1
    /\ a_out.v[1].publication_date = Date1

\* a bioRxiv or medRxiv search_advanced with both dates given
BioRxivDatedSearch ==
    /\ SearchDone("search_advanced") /\ IsBioRxiv(a_in.adapter)
    /\ Truthy(KwGet(a_in.call.kwargs, "start_date"))
    /\ Truthy(KwGet(a_in.call.kwargs, "end_date"))

\* C18: a bioRxiv search_advanced given start_date and end_date returns
\* only records whose publication_date is lexically within the two, whatever
\* the listing holds.
C18_BioRxivDateRange ==
    BioRxivDatedSearch =>
        \A i \in 1..Len(a_out.v) :
            DateInRange(a_out.v[i].publication_date, a_in.call.kwargs)

\* a search of a bioRxiv server has returned
BioRxivDone ==
    /\ a_out.done /\ a_in.op \in {"search_by_keywords", "search_advanced"}
    /\ IsBioRxiv(a_in.adapter)

\* the num_results of a direct call
NumResultsOf(c) ==
    IF c.op = "search_by_keywords" THEN c.num_results ELSE Get(c.kwargs, "num_results", 10)

\* C19 as stated: no page is requested once num_results matches are held,
\* and the records scanned in one call never exceed 10,000, whatever the
\* size of the pages.
C19_ScanNeverExceedsCeiling ==
    BioRxivDone =>
        /\ \A i \in 1..Len(a_out.log) : a_out.log[i].held < NumResultsOf(a_in.call)
        /\ a_out.scanned <= ScanCeiling

\* the size of the page that answered request i; past the listing the
\* page is empty
PageSize(i) == IF i <= Len(a_in.up) THEN CollectionLen(a_in.up[i]) ELSE 0

\* C19 amended: a page is requested only while fewer than num_results
\* matches are held and the cursor is below 10,000, the cursor being the
\* total size of the pages read so far; so the records scanned in one call
\* are fewer than 10,000 plus the size of the last page read.
C19_ScanCeilingBeforeRequest ==
    BioRxivDone =>
        LET log == a_out.log
            n == NumResultsOf(a_in.call)
        IN  /\ \A i \in 1..Len(log) : log[i].held < n /\ log[i].cursor < ScanCeiling
            /\ \A i \in 1..(Len(log) - 1) : log[i + 1].cursor = log[i].cursor + PageSize(i)
            /\ Len(log) > 0 => log[1].cursor = 0
            /\ Len(log) = 0 => a_out.scanned = 0
            /\ Len(log) > 0 =>
                  /\ a_out.scanned <= log[Len(log)].cursor + PageSize(Len(log))
                  /\ a_out.scanned < ScanCeiling + PageSize(Len(log))

\* two pages of half the ceiling each have been read without a match and
\* no third page has been requested
C19_Witness ==
    /\ BioRxivDone
    /\ NumResultsOf(a_in.call) > 0
    /\ Len(a_out.log) = 2
    /\ a_out.log[2].cursor = ScanCeiling \div 2
    /\ a_out.scanned = ScanCeiling
    /\ Len(a_in.up) = 2
    /\ a_out.v = <<>>

\* a Semantic Scholar search_advanced has fetched and formatted a reply
SemanticFetched ==
    /\ SearchDone("search_advanced") /\ a_in.adapter = "semantic_scholar"
    /\ SemanticHasQuery(a_in.call.kwargs)
    /\ ~FailedReply(a_in.up)
    /\ \A i \in 1..Len(a_in.up.items) : ~SemanticFormatThrows(a_in.up.items[i])

\* C20: a Semantic Scholar search_advanced that issues its request sends
\* the limit 2 x num_results, or 100 when that is more; of the records
\* fetched it keeps, when an author criterion is given, those whose authors
\* string contains the criterion, both lower-cased; it returns the first
\* num_results of the kept records in upstream order, hence num_results
\* records whenever that many fetched records match.
C20_SemanticAdvancedSearch ==
    /\ (SearchDone("search_advanced") /\ a_in.adapter = "semantic_scholar"
            /\ SemanticHasQuery(a_in.call.kwargs))
       => LET n == NumResultsOf(a_in.call) IN
          /\ a_out.limit <= SemanticMaxLimit
          /\ a_out.limit = IF 2 * n <= SemanticMaxLimit THEN 2 * n ELSE SemanticMaxLimit
    /\ SemanticFetched
       => LET kwargs == a_in.call.kwargs
              n == NumResultsOf(a_in.call)
              fetched == [i \in 1..Len(a_in.up.items) |->
                             SemanticFormatResult(a_in.up.items[i])]
              Kept(r) == Truthy(KwGet(kwargs, "author"))
                         => IsSubstr(Lower(kwargs.author), Lower(r.authors))
              kept == SelectSeq(fetched, Kept)
          IN  /\ \A i \in 1..Len(a_out.v) : Kept(a_out.v[i])
              /\ a_out.v = SubSeq(kept, 1, Min(n, Len(kept)))
              /\ Len(kept) >= n => Len(a_out.v) = n

\* with the author criterion "B" and num_results 1, two fetched papers have
\* authors that contain "b" and the first of them has been returned
C20_Witness ==
    /\ SemanticFetched
    /\ KwGet(a_in.call.kwargs, "author") = <<"B">>
    /\ NumResultsOf(a_in.call) = 1
    /\ a_out.limit = 2
    /\ Len(a_in.up.items) = 2
    /\ Get(a_in.up.items[1], "authors", <<>>) = <<[name |-> <<"A", " ", "b">>]>>
    /\ Get(a_in.up.items[2], "authors", <<>>) = <<[name |-> <<"b">>]>>
    /\ Len(a_out.v) = 1
    /\ a_out.v[1].authors = <<"A", " ", "b">>

----------------------------------------------------------------------------
(* C21: the Sci-Hub emission rule *)

\* a search_by_keywords of the Sci-Hub adapter, its client library
\* imported, has returned
SciHubDone ==
    SearchDone("search_by_keywords") /\ a_in.adapter = "scihub" /\ a_in.available

\* the CrossRef items the loop goes over
SciHubScanned ==
    IF FailedReply(a_in.up) THEN <<>> ELSE Take(a_in.up.items, a_in.call.num_results)

HasDoi(item) == Truthy(Get(item, "DOI", NoneVal))

\* the DOIs of the scanned items, one per item that has one
SciHubDois ==
    LET with == SelectSeq(SciHubScanned, HasDoi) IN [i \in 1..Len(with) |-> with[i].DOI]

IsPrefix(s, t) == Len(s) <= Len(t) /\ s = SubSeq(t, 1, Len(s))

\* C21: a record is returned for a DOI only if the CrossRef call returned
\* status 200 with an item of that DOI and Sci-Hub resolved the DOI; no
\* error entry is returned; Sci-Hub is asked once per item, in order, so an
\* unresolved DOI is not asked again; and the list returned is the one the
\* same reply without the items of unresolved DOIs gives, so the records of
\* the other DOIs are emitted as if the unresolved ones were absent.
C21_SciHubEmission ==
    SciHubDone =>
        LET Resolved(item) == HasDoi(item) /\ item.DOI \in a_in.up.fetched
            resolved == SelectSeq(SciHubScanned, Resolved)
        IN  /\ \A i \in 1..Len(a_out.v) :
                 /\ "error" \notin DOMAIN a_out.v[i]
                 /\ ~FailedReply(a_in.up)
                 /\ a_out.v[i].id \in a_in.up.fetched
                 /\ \E j \in 1..Len(SciHubScanned) :
                        Resolved(SciHubScanned[j]) /\ SciHubScanned[j].DOI = a_out.v[i].id
            /\ IsPrefix(a_out.log, SciHubDois)
            /\ a_out.net = 1 + Len(a_out.log)
            /\ ~FailedReply(a_in.up) =>
                  a_out.v = SciHubSearchByKeywords(TRUE, Len(resolved),
                                [a_in.up EXCEPT !.items = resolved]).v
            /\ (\A j \in 1..Len(resolved) :
                    ~SciHubFormatDateThrows(Get(resolved[j], "created", <<>>)))
                  => /\ Len(a_out.v) = Len(resolved)
                     /\ \A j \in 1..Len(resolved) : a_out.v[j].id = resolved[j].DOI

\* CrossRef returned the DOIs 1 and 2, Sci-Hub resolved only 2: it has been
\* asked once for each and the one record returned is that of DOI 2
C21_Witness ==
    /\ SciHubDone
    /\ SciHubDois = <<<<"1">>, <<"2">>>>
    /\ a_in.up.fetched = {<<"2">>}
    /\ a_out.log = <<<<"1">>, <<"2">>>>
    /\ Len(a_out.v) = 1
    /\ a_out.v[1].id = <<"2">>

----------------------------------------------------------------------------
(* academic_server.py: several requests in progress on one event loop.    *)
(* A handler is a coroutine; it runs without interruption from one await   *)
(* to the next, and while it waits for asyncio.to_thread the loop runs the *)
(* other handlers.  Its locals are the fields of its entry in tasks; now  *)
(* is the time it has spent, one unit per awaited adapter call.            *)

\* the requests of this part: both tools, "all", one registered source and
\* one that is not
ServerRequests ==
    {KeywordRequest(<<"a">>, source, 1) : source \in {"all", "biorxiv", "nonexistent_source"}}
    \cup {AdvancedRequest([NoCriteria EXCEPT !.title = <<"a">>], "arxiv", 1)}

\* what the upstream of an adapter answers to call c in this part: to a
\* keyword search a reply with one paper, from a bioRxiv listing a page
\* without a match followed by a refusal; to an advanced search a refusal
\* or a reply with one paper
ServerUpstream(name, c) ==
    CASE name = "pubmed" ->
           {Reply(FALSE, 200, <<[PMID |-> <<"1">>, Title |-> <<"a">>]>>)}
      [] name \in {"biorxiv", "medrxiv"} ->
           {<<Reply(FALSE, 200, <<[doi |-> <<"1">>, title |-> <<"b">>]>>),
              Reply(FALSE, 500, <<>>)>>}
      [] name = "arxiv" ->
           (IF c.op = "search_advanced" THEN {Reply(FALSE, 500, <<>>)} ELSE {})
           \cup {Reply(FALSE, 200, <<[id |-> <<"http://arxiv.org", "/abs/", "3">>,
                                      title |-> <<"a">>]>>)}
      [] name = "semantic_scholar" ->
           {Reply(FALSE, 200, <<[paperId |-> <<"4">>, title |-> <<"c">>]>>)}

\* the upstream requests one adapter operation issues, in order: the
\* adapter, the cursor of the request (0 where the adapter does not page)
\* and whether the reply was a failure
UpstreamLog(name, c, up) ==
    LET o == OutcomeOf(name, c, up, TRUE) IN
    IF name \in {"biorxiv", "medrxiv"}
    THEN [i \in 1..Len(o.log) |->
            [adapter |-> name, cursor |-> o.log[i].cursor,
             failed |-> i <= Len(up) /\ FailedReply(up[i])]]
    ELSE [i \in 1..o.net |-> [adapter |-> name, cursor |-> 0, failed |-> FailedReply(up)]]

\* asyncio.to_thread(adapter.search_..., ...) is called at time now
TaskInvocation(name, r, now) == [name |-> name, call |-> CallOf(r), start |-> now]

\* TaskNextIdx calling an adapter that returned nothing a second time
TaskNextIdxRetry(k, results) ==
    IF results = <<>> /\ Len(k.called) = k.idx THEN k.idx ELSE k.idx + 1

\* the for loop over adapters.items() goes to the next adapter
TaskNextIdx(k, results) == k.idx + 1

\* AllResultsOf reading one dict kept at module level
AllResultsOfShared(ts, t) == ts[1].all_results

\* the all_results dict of handler t: a local created at its entry
AllResultsOf(ts, t) == ts[t].all_results

\* the handler is entered with request r and runs to its first await, or to
\* its return when the selector is invalid
TaskEntered(r) ==
    IF r.source = "all"
    THEN [IdleTask EXCEPT !.pc = "await", !.req = r, !.idx = 1,
                          !.called = <<TaskInvocation(AVAILABLE_SOURCES[1], r, 0)>>]
    ELSE IF InRegistry(r.source)
    THEN [IdleTask EXCEPT !.pc = "await", !.req = r, !.idx = RegIndex(r.source),
                          !.called = <<TaskInvocation(r.source, r, 0)>>]
    ELSE [IdleTask EXCEPT !.pc = "done", !.req = r,
                          !.result = <<[error |-> InvalidSourceMsg(r.op, r.source)]>>]

\* the time the handler has spent: the end of its last awaited call
TaskNow(k) == IF k.got = <<>> THEN 0 ELSE k.got[Len(k.got)].end

\* what the await of an adapter call gives the handler: the list returned
\* and the upstream requests issued for it, or an exception
ReturnedOutcome(name, c, up) ==
    [kind |-> "returned", v |-> OutcomeOf(name, c, up, TRUE).v,
     log |-> UpstreamLog(name, c, up)]

RaisedOutcome == [kind |-> "raised", v |-> <<>>, log |-> <<>>]

\* the awaited call of handler k has ended with outcome o: the handler
\* goes on to its next await or to its return; all_results_now is its
\* all_results dict
TaskResumed(k, all_results_now, o) ==
    LET name == k.called[Len(k.called)].name
        start == k.called[Len(k.called)].start
        got2 == Append(k.got, [name |-> name, kind |-> o.kind, v |-> o.v,
                               start |-> start, end |-> start + 1])
        reqs2 == k.reqs \o o.log
    IN  IF k.req.source # "all"
        THEN [k EXCEPT !.pc = "done", !.got = got2, !.reqs = reqs2,
                       !.result = IF o.kind = "raised"
                                  THEN <<[error |-> FailureMsg(k.req.op, "RuntimeError")]>>
                                  ELSE o.v]
        ELSE LET all2 == IF o.kind = "returned" /\ o.v # <<>>
                         THEN SetItem(all_results_now, name, o.v)
                         ELSE all_results_now
                 next == TaskNextIdx(k, o.v)
             IN  IF next <= Len(AVAILABLE_SOURCES)
                 THEN [k EXCEPT !.idx = next, !.got = got2, !.reqs = reqs2,
                                !.all_results = all2,
                                !.called = Append(k.called,
                                    TaskInvocation(AVAILABLE_SOURCES[next], k.req, start + 1))]
                 ELSE LET m == merge_results_from_sources(all2) IN
                      [k EXCEPT !.pc = "done", !.got = got2, !.reqs = reqs2,
                                !.all_results = all2,
                                !.result = IF m.raised
                                           THEN <<[error |-> FailureMsg(k.req.op, "AttributeError")]>>
                                           ELSE m.merged]

\* a request arrives and a handler starts
TaskEnter ==
    \E t \in TaskIds, r \in ServerRequests :
        /\ tasks[t].pc = "idle"
        /\ tasks' = [tasks EXCEPT ![t] = TaskEntered(r)]
        /\ UNCHANGED <<pc, req, idx, all_results, called, ret, result, m_in, m_out,
                       a_in, a_out, registry, scan>>

\* the thread of an awaited adapter call returns and its handler is resumed
TaskAdapterReturns ==
    \E t \in TaskIds :
        /\ tasks[t].pc = "await"
        /\ LET k == tasks[t]
               inv == k.called[Len(k.called)]
           IN  \E up \in ServerUpstream(inv.name, inv.call) :
                 tasks' = [tasks EXCEPT ![t] =
                             TaskResumed(k, AllResultsOf(tasks, t),
                                         ReturnedOutcome(inv.name, inv.call, up))]
        /\ UNCHANGED <<pc, req, idx, all_results, called, ret, result, m_in, m_out,
                       a_in, a_out, registry, scan>>

\* the await of an adapter call throws: under "all" the inner handler logs
\* it and the loop goes on, otherwise the outer handler returns an error
TaskAdapterRaises ==
    \E t \in TaskIds :
        /\ tasks[t].pc = "await"
        /\ tasks' = [tasks EXCEPT ![t] =
                       TaskResumed(tasks[t], AllResultsOf(tasks, t), RaisedOutcome)]
        /\ UNCHANGED <<pc, req, idx, all_results, called, ret, result, m_in, m_out,
                       a_in, a_out, registry, scan>>

\* the response of a handler is delivered and its locals are dropped
TaskRespond ==
    \E t \in TaskIds :
        /\ tasks[t].pc = "done"
        /\ tasks' = [tasks EXCEPT ![t] = IdleTask]
        /\ UNCHANGED <<pc, req, idx, all_results, called, ret, result, m_in, m_out,
                       a_in, a_out, registry, scan>>

NextServer == TaskEnter \/ TaskAdapterReturns \/ TaskAdapterRaises \/ TaskRespond

SpecServer == Init /\ [][NextServer]_vars

----------------------------------------------------------------------------
(* C22: no retry *)

\* the upstream requests of handler k that adapter name has issued
ReqsOf(k, name) ==
    LET ByName(e) == e.adapter = name IN SelectSeq(k.reqs, ByName)

\* C22: in every state of every request, no adapter has been invoked twice;
\* an upstream request of an adapter that failed (exception or status other
\* than 200) is the last one that adapter issues for the request; and no
\* two upstream requests of the request have the same adapter and cursor.
C22_NoRetry ==
    \A t \in TaskIds :
        LET k == tasks[t] IN
        /\ \A i, j \in 1..Len(k.called) : k.called[i].name = k.called[j].name => i = j
        /\ \A name \in {AVAILABLE_SOURCES[i] : i \in 1..Len(AVAILABLE_SOURCES)} :
              LET own == ReqsOf(k, name) IN
              \A i \in 1..Len(own) : own[i].failed => i = Len(own)
        /\ \A i, j \in 1..Len(k.reqs) :
              (k.reqs[i].adapter = k.reqs[j].adapter /\ k.reqs[i].cursor = k.reqs[j].cursor)
                  => i = j

\* an "all" request has returned after its bioRxiv adapter read one page
\* and was refused the second and after the await of its arXiv adapter
\* threw, each of the five adapters invoked once; and an arXiv request has
\* returned after its one upstream request was refused
C22_Witness ==
    /\ \E t \in TaskIds :
        LET k == tasks[t] IN
        /\ k.pc = "done" /\ k.req.source = "all"
        /\ Len(k.called) = Len(AVAILABLE_SOURCES)
        /\ Len(ReqsOf(k, "biorxiv")) = 2
        /\ ReqsOf(k, "biorxiv")[2].failed
        /\ ReqsOf(k, "biorxiv")[2].cursor = 1
        /\ k.got[4].kind = "raised"
    /\ \E t \in TaskIds :
        LET k == tasks[t] IN
        /\ k.pc = "done" /\ k.req.source = "arxiv"
        /\ Len(ReqsOf(k, "arxiv")) = 1
        /\ ReqsOf(k, "arxiv")[1].failed
        /\ k.result = <<>>

----------------------------------------------------------------------------
(* C23: concurrent fan-out *)

\* the time the slowest of the awaited calls of handler k took
Slowest(k) ==
    IF k.got = <<>> THEN 0
    ELSE LET d(i) == k.got[i].end - k.got[i].start
             i == CHOOSE i \in 1..Len(k.got) : \A j \in 1..Len(k.got) : d(j) <= d(i)
         IN  d(i)

\* C23: an "all" request returns within the time its slowest adapter call
\* took, the calls running side by side, and not after the sum of the times
\* of all its adapter calls.
C23_ConcurrentFanOut ==
    \A t \in TaskIds :
        LET k == tasks[t] IN
        (k.pc = "done" /\ k.req.source = "all") => TaskNow(k) <= Slowest(k)

----------------------------------------------------------------------------
(* C24: request isolation *)

\* the all_results dict a request run alone builds from the outcomes got of
\* its adapter calls
RECURSIVE AloneAllResults(_)
AloneAllResults(got) ==
    IF got = <<>> THEN <<>>
    ELSE LET last == got[Len(got)]
             before == AloneAllResults(SubSeq(got, 1, Len(got) - 1))
         IN  IF last.kind = "returned" /\ last.v # <<>>
             THEN Append(before, [k |-> last.name, v |-> last.v])
             ELSE before

\* the value a request r run alone returns when its adapter calls end with
\* the outcomes got
AloneResult(r, got) ==
    IF r.source = "all"
    THEN LET m == merge_results_from_sources(AloneAllResults(got)) IN
         IF m.raised THEN <<[error |-> FailureMsg(r.op, "AttributeError")]>>
         ELSE m.merged
    ELSE IF ~InRegistry(r.source)
    THEN <<[error |-> InvalidSourceMsg(r.op, r.source)]>>
    ELSE IF got[1].kind = "raised"
    THEN <<[error |-> FailureMsg(r.op, "RuntimeError")]>>
    ELSE got[1].v

\* the adapters a request r run alone has invoked when n of its calls have
\* ended and it has not returned
AloneCalled(r, n) ==
    IF r.source = "all"
    THEN [i \in 1..Min(n + 1, Len(AVAILABLE_SOURCES)) |-> AVAILABLE_SOURCES[i]]
    ELSE IF InRegistry(r.source) THEN <<r.source>> ELSE <<>>

\* C24: with several requests in progress and interleaved at their awaits,
\* the locals of each request are those it would have if run alone against
\* the same adapter outcomes: its all_results holds the non-empty lists of
\* its own calls only, it has invoked the adapters its own selector names,
\* each with its own arguments, and at its return the result is the one of
\* the request run alone; a handler not serving a request holds nothing;
\* the adapter registry and the list of available sources are as built.
C24_RequestIsolation ==
    /\ registry = Registry
    /\ \A t \in TaskIds :
        LET k == tasks[t] IN
        /\ k.pc = "idle" => k = IdleTask
        /\ k.pc # "idle" =>
             /\ k.req \in ServerRequests
             /\ k.all_results = (IF k.req.source = "all" THEN AloneAllResults(k.got)
                                 ELSE <<>>)
             /\ [i \in 1..Len(k.called) |-> k.called[i].name] = AloneCalled(k.req, Len(k.got))
             /\ \A i \in 1..Len(k.called) : k.called[i].call = CallOf(k.req)
             /\ \A i \in 1..Len(k.got) : k.got[i].name = k.called[i].name
        /\ k.pc = "done" => k.result = AloneResult(k.req, k.got)

\* two "all" requests are in progress at once: one has returned a merged
\* list of two sources while the other, whose PubMed call threw, still
\* awaits its third adapter with nothing collected
C24_Witness ==
    \E t, u \in TaskIds :
        /\ t # u
        /\ tasks[t].pc = "done" /\ tasks[t].req.source = "all"
        /\ Len(tasks[t].all_results) = 2
        /\ Len(tasks[t].result) = 2
        /\ tasks[u].pc = "await" /\ tasks[u].req.source = "all"
        /\ tasks[u].idx = 3
        /\ tasks[u].got[1].kind = "raised"
        /\ tasks[u].all_results = <<>>

----------------------------------------------------------------------------
(* C25: the source tag *)

\* get_source_name() of the adapter registered or exported under name: a
\* literal of its class, for the two BioRxivAdapter instances self.server
SourceNameOf(name) ==
    CASE name = "pubmed" -> "pubmed"
      [] name = "biorxiv" -> "biorxiv"
      [] name = "medrxiv" -> "medrxiv"
      [] name = "arxiv" -> "arxiv"
      [] name = "semantic_scholar" -> "semantic_scholar"
      [] name = "scihub" -> "scihub"

\* the fixed provider-name enum
ProviderNames == {"pubmed", "biorxiv", "medrxiv", "arxiv", "semantic_scholar", "scihub"}

\* C25: every element of the list a search operation of the adapter known
\* under name s returns has a source field equal to s, which is the
\* adapter's get_source_name() and one of the six provider names.
C25_SourceTag ==
    (SearchDone("search_by_keywords") \/ SearchDone("search_advanced")) =>
        /\ a_in.adapter \in ProviderNames
        /\ SourceNameOf(a_in.adapter) = a_in.adapter
        /\ \A i \in 1..Len(a_out.v) :
              /\ "source" \in DOMAIN a_out.v[i]
              /\ a_out.v[i].source = a_in.adapter

----------------------------------------------------------------------------
(* C26: only retained records are registered *)

\* A (id 1, title a), B (id 2, title " A ") and C (id 2, title b): B has the
\* normalized title of A and C the id of B
ExampleABC ==
    <<[k |-> "pubmed", v |-> <<[id |-> <<"1">>, title |-> <<"a">>],
                               [id |-> <<"2">>, title |-> <<" ", "A", " ">>]>>],
      [k |-> "biorxiv", v |-> <<[id |-> <<"2">>, title |-> <<"b">>]>>]>>

\* the non-empty ids and the non-empty normalized titles of the records of
\* a list
IdsOf(records) == {IdOf(records[i]) : i \in 1..Len(records)} \ {<<>>}
TitlesOf(records) == {TitleOf(records[i]) : i \in 1..Len(records)} \ {<<>>}

\* C26: after every iteration of the merge that has not thrown, and at its
\* return, seen_ids is the set of the non-empty ids and seen_titles the set
\* of the non-empty normalized titles of the records appended so far; so
\* with A kept and B skipped for its title, C with the id of B is kept.
C26_OnlyRetainedRegistered ==
    m_out.done =>
        LET flat == Flatten(m_in) IN
        /\ \A j \in 0..Len(flat) :
              LET st == MergeLoop(MergeStart, SubSeq(flat, 1, j), 1) IN
              ~st.raised =>
                  /\ st.seen_ids = IdsOf(st.merged)
                  /\ st.seen_titles = TitlesOf(st.merged)
        /\ MergeReturned =>
              /\ m_out.seen_ids = IdsOf(m_out.merged)
              /\ m_out.seen_titles = TitlesOf(m_out.merged)
        /\ m_in = ExampleABC => m_out.kept = <<1, 3>>

\* the merge of A, B, C has returned A and C with the ids 1 and 2 and the
\* titles a and b registered
C26_Witness ==
    /\ MergeReturned
    /\ m_in = ExampleABC
    /\ m_out.merged = <<ExampleABC[1].v[1], ExampleABC[2].v[1]>>
    /\ m_out.seen_ids = {<<"1">>, <<"2">>}
    /\ m_out.seen_titles = {<<"a">>, <<"b">>}

----------------------------------------------------------------------------
(* biorxiv_adapter.py: the paging loop of search_by_keywords and           *)
(* search_advanced, one iteration per step, against an upstream that can   *)
(* go on answering for ever.  Of the records only their number matters     *)
(* here: held is len(all_results), and a page is given by its size and the *)
(* number of its records that match.                                       *)

\* the sizes of a non-empty page
PageSizes == {ScanCeiling \div 100, ScanCeiling \div 2, ScanCeiling - 1}

\* what the upstream answers to one request: the request throws or a
\* record of the page makes the matching throw, the request is refused, the
\* collection is empty, or it holds size records of which hits match
ScanReplies ==
    {[kind |-> "exception", size |-> 0, hits |-> 0],
     [kind |-> "refused", size |-> 0, hits |-> 0],
     [kind |-> "empty", size |-> 0, hits |-> 0]}
    \cup {[kind |-> "page", size |-> size, hits |-> hits] :
             size \in PageSizes, hits \in 0..(MaxNum + 1)}

\* the method is called: all_results = [], cursor = 0
ScanStart ==
    /\ scan.pc = "none"
    /\ \E op \in {"search_by_keywords", "search_advanced"}, num_results \in -1..MaxNum :
          scan' = [pc |-> "loop", op |-> op, num_results |-> num_results, held |-> 0,
                   cursor |-> 0, requests |-> 0, returned |-> 0]
    /\ UNCHANGED <<pc, req, idx, all_results, called, ret, result, m_in, m_out,
                   a_in, a_out, tasks, registry>>

\* the condition of the while loop holds: one request is issued and its
\* reply handled; the for loop stops appending once num_results are held
ScanRequest ==
    /\ scan.pc = "loop"
    /\ BioRxivContinues(scan.held, scan.cursor, scan.num_results)
    /\ \E reply \in ScanReplies :
          scan' =
            IF reply.kind = "exception"
            THEN [scan EXCEPT !.pc = "done", !.requests = scan.requests + 1,
                              !.returned = 0]
            ELSE IF reply.kind \in {"refused", "empty"}
            THEN [scan EXCEPT !.pc = "done", !.requests = scan.requests + 1,
                              !.returned = Min(scan.held, scan.num_results)]
            ELSE [scan EXCEPT !.requests = scan.requests + 1,
                              !.held = Min(scan.held + reply.hits, scan.num_results),
                              !.cursor = BioRxivAdvance(scan.cursor, reply.size)]
    /\ UNCHANGED <<pc, req, idx, all_results, called, ret, result, m_in, m_out,
                   a_in, a_out, tasks, registry>>

\* the condition of the while loop fails: all_results[:num_results] is
\* returned
ScanReturn ==
    /\ scan.pc = "loop"
    /\ ~BioRxivContinues(scan.held, scan.cursor, scan.num_results)
    /\ scan' = [scan EXCEPT !.pc = "done",
                            !.returned = IF scan.num_results < 0 THEN 0
                                         ELSE Min(scan.held, scan.num_results)]
    /\ UNCHANGED <<pc, req, idx, all_results, called, ret, result, m_in, m_out,
                   a_in, a_out, tasks, registry>>

NextPaging == ScanStart \/ ScanRequest \/ ScanReturn

\* the thread that runs the method is not starved, and every request ends:
\* requests.get is called with timeout=30
SpecPaging == Init /\ [][NextPaging]_vars /\ WF_vars(ScanRequest \/ ScanReturn)

----------------------------------------------------------------------------
(* C27: bioRxiv paging terminates *)

\* C27: a paging loop that has started ends, whatever the upstream answers;
\* an iteration that does not leave the loop moves the cursor forward, and
\* a request is issued only below the ceiling, so at most 10,000 requests
\* are issued; with num_results <= 0 none is.
C27_PagingTerminates ==
    /\ [](scan.pc \in {"loop", "done"} =>
             /\ scan.requests <= ScanCeiling
             /\ scan.num_results <= 0 => scan.requests = 0)
    /\ [][(scan.pc = "loop" /\ scan'.pc = "loop")
             => (scan.cursor < ScanCeiling /\ scan'.cursor > scan.cursor)]_vars
    /\ (scan.pc = "loop") ~> (scan.pc = "done")

\* a loop has ended at the ceiling after a hundred pages without a match
C27_Witness ==
    /\ scan.pc = "done"
    /\ scan.num_results > 0
    /\ scan.held = 0
    /\ scan.cursor = ScanCeiling
    /\ scan.requests = 100

----------------------------------------------------------------------------
(* C28: bioRxiv client-side match *)

\* the records of one page as runs of equal records: its first records one
\* by one, then the records that follow them
RunsOfPage(response) ==
    [i \in 1..Len(response.items) |-> [item |-> response.items[i], count |-> 1]]
    \o (IF PadOf(response) > 0
        THEN <<[item |-> BioRxivPadItem, count |-> PadOf(response)]>> ELSE <<>>)

\* the records of the pages delivered before the first failing reply, in
\* listing order
RECURSIVE RunsOfListing(_)
RunsOfListing(pages) ==
    IF pages = <<>> \/ FailedReply(Head(pages)) THEN <<>>
    ELSE RunsOfPage(Head(pages)) \o RunsOfListing(Tail(pages))

\* the first k records of runs
RECURSIVE TakeRuns(_, _)
TakeRuns(runs, k) ==
    IF runs = <<>> \/ k <= 0 THEN <<>>
    ELSE <<[item |-> Head(runs).item, count |-> Min(k, Head(runs).count)]>>
         \o TakeRuns(Tail(runs), k - Head(runs).count)

\* field of a record contains query without regard to case; a field that
\* is missing is empty and a null field contains nothing
ContainsNoCase(item, field, query) ==
    /\ Get(item, field, <<>>) # NoneVal
    /\ IsSubstr(Lower(query), Lower(Get(item, field, <<>>)))

\* the record meets the criteria of the call; a criterion that is absent
\* or empty asks for nothing
MeetsCall(item, c) ==
    IF c.op = "search_by_keywords"
    THEN \/ ContainsNoCase(item, "title", c.keywords)
         \/ ContainsNoCase(item, "abstract", c.keywords)
    ELSE /\ \/ Get(c.kwargs, "title", <<>>) = <<>>
            \/ ContainsNoCase(item, "title", c.kwargs.title)
         /\ \/ Get(c.kwargs, "author", <<>>) = <<>>
            \/ ContainsNoCase(item, "authors", c.kwargs.author)

\* the records of runs that meet the call, formatted, in order
RECURSIVE MatchesOfRuns(_, _, _)
MatchesOfRuns(server, runs, c) ==
    IF runs = <<>> THEN <<>>
    ELSE (IF MeetsCall(Head(runs).item, c)
          THEN [i \in 1..Head(runs).count |-> BioRxivFormatResult(server, Head(runs).item)]
          ELSE <<>>)
         \o MatchesOfRuns(server, Tail(runs), c)

\* the first num_results of the scanned records that meet the call
FirstMatchesScanned ==
    Take(MatchesOfRuns(a_in.adapter,
                       TakeRuns(RunsOfListing(a_in.up), a_out.scanned), a_in.call),
         NumResultsOf(a_in.call))

\* the call has raised: a request, the matching of a record or the parsing
\* of end_date threw
BioRxivRaised == BioRxivLoopOf(a_in.adapter, a_in.call, a_in.up).exc

\* C28 as stated: a bioRxiv search returns exactly the first num_results of
\* the scanned records that meet the keywords (title or abstract) or the
\* criteria (title, authors), in listing order.
C28_ClientSideMatch ==
    BioRxivDone => a_out.v = FirstMatchesScanned

\* C28 amended: a bioRxiv search that has not raised returns exactly the
\* first num_results of the scanned records that meet the keywords or the
\* criteria, in listing order; one that has raised returns the empty list,
\* whatever it had matched.
C28_ClientSideMatchUnlessRaised ==
    BioRxivDone =>
        a_out.v = IF BioRxivRaised THEN <<>> ELSE FirstMatchesScanned

\* a keyword search has passed over a record that does not match and has
\* returned one that matches by its abstract alone
C28_Witness ==
    /\ BioRxivDone /\ ~BioRxivRaised
    /\ a_in.op = "search_by_keywords"
    /\ Len(a_out.v) = NumResultsOf(a_in.call)
    /\ a_out.scanned > Len(a_out.v)
    /\ \E i \in 1..Len(a_out.v) :
          ~IsSubstr(Lower(a_in.call.keywords), Lower(a_out.v[i].title))

----------------------------------------------------------------------------
(* C29: merged output is duplicate-free *)

\* C29: no two records of the output of merge_results_from_sources share a
\* non-empty id, no two share a non-empty lower-cased, trimmed title, and
\* merging the output again as the only source returns it unchanged.
C29_MergedDuplicateFree ==
    MergeReturned =>
        LET out == m_out.merged
            again == merge_results_from_sources(<<[k |-> "pubmed", v |-> out]>>)
        IN  /\ \A i, j \in 1..Len(out) :
                  i < j =>
                     /\ ~(Truthy(IdOf(out[i])) /\ IdOf(out[i]) = IdOf(out[j]))
                     /\ ~(Truthy(TitleOf(out[i])) /\ TitleOf(out[i]) = TitleOf(out[j]))
            /\ ~again.raised
            /\ again.merged = out

\* four records of two sources have been merged into two: one was dropped
\* for its id and one for its title
C29_Witness ==
    /\ MergeReturned
    /\ Len(m_in) = 2
    /\ Len(Flatten(m_in)) = 4
    /\ Len(m_out.merged) = 2
    /\ \E i, j \in 1..4 :
          /\ i # j /\ i \notin Range(m_out.kept) /\ j \notin Range(m_out.kept)
          /\ \E h \in 1..(i - 1) : IdOf(Flatten(m_in)[h]) = IdOf(Flatten(m_in)[i])
                                   /\ Truthy(IdOf(Flatten(m_in)[i]))
          /\ \A h \in 1..(j - 1) : IdOf(Flatten(m_in)[h]) # IdOf(Flatten(m_in)[j])
          /\ \E h \in 1..(j - 1) : TitleOf(Flatten(m_in)[h]) = TitleOf(Flatten(m_in)[j])

----------------------------------------------------------------------------
(* C30: merge loses nothing without a witness *)

\* the record carries neither an id nor a title
Anonymous(rec) == ~Truthy(Get(rec, "id", <<>>)) /\ ~Truthy(Get(rec, "title", <<>>))

\* the input record at position h stands for the one at position j: it
\* comes earlier and has the same non-empty id or the same non-empty
\* lower-cased, trimmed title
StandsFor(flat, h, j) ==
    /\ h < j
    /\ \/ Truthy(IdOf(flat[j])) /\ IdOf(flat[h]) = IdOf(flat[j])
       \/ Truthy(TitleOf(flat[j])) /\ TitleOf(flat[h]) = TitleOf(flat[j])

\* C30: the output of merge_results_from_sources is made of input records,
\* unchanged and in iteration order; every input record left out has a
\* retained record before it with the same non-empty id or the same
\* non-empty normalized title; every record without id and title is
\* retained; and the input mapping is not modified by the call.
C30_NothingLostWithoutWitness ==
    /\ [](MergeReturned =>
            LET flat == Flatten(m_in) IN
            /\ KeptIsOutput
            /\ \A j \in 1..Len(flat) :
                  j \notin Range(m_out.kept) =>
                     \E h \in Range(m_out.kept) : StandsFor(flat, h, j)
            /\ \A j \in 1..Len(flat) : Anonymous(flat[j]) => j \in Range(m_out.kept))
    /\ [][m_in' = m_in]_vars

\* two records without id and title and an error entry have all been
\* retained, and a fourth record has been left out
C30_Witness ==
    /\ MergeReturned
    /\ Len(Flatten(m_in)) = 4
    /\ Len(m_out.merged) = 3
    /\ \E i, j \in Range(m_out.kept) :
          /\ i < j
          /\ Flatten(m_in)[i] = Flatten(m_in)[j]
          /\ Anonymous(Flatten(m_in)[i])
    /\ \E j \in 1..4 : j \notin Range(m_out.kept)

====
